---- MODULE Spec2Model ----
(***************************************************************************)
(* The research workflow of phd-agent: SupervisorAgent's loop              *)
(* (run_research_workflow), its decision step (determine_next_step with    *)
(* the fallback table), its dispatcher (execute_step) and the four step    *)
(* handlers (PDFAgent.run, WebSearchAgent.run, AnalystAgent.run,           *)
(* EssayWriterAgent.run), as they stand under src/src/phd_agent; and the   *)
(* functions the handlers are made of (the relevance filter, the quality   *)
(* ranking, the data summary, the essay validation), the construction of a *)
(* ResearchTask and file_utils.write_essay, each called on its own; and    *)
(* the task store of the HTTP interface (api.py).                          *)
(*                                                                         *)
(* Numbers with a fractional part (scores, thresholds) are kept in tenths. *)
(***************************************************************************)
EXTENDS Integers, Sequences, FiniteSets, TLC

VARIABLES
    pc,                 \* position of SupervisorAgent.run / run_research_workflow
    iteration,          \* run_research_workflow: local `iteration`
    pdf_paths,          \* run_research_workflow: parameter `pdf_paths` (one-shot input)
    decision,           \* run_research_workflow: local `decision` of the current iteration
    current_step,       \* AgentState.current_step
    documents,          \* AgentState.documents
    search_results,     \* AgentState.search_results (ids of the documents they come from)
    errors,             \* AgentState.errors
    analysis_results,   \* AgentState.analysis_results
    essay,              \* AgentState.essay_outline, final_essay, essay_validation_result
    cfg,                \* config.ENABLE_WEB_SEARCH, config.OPENAI_API_KEY set, store reachable
    task,               \* AgentState.task: the ResearchTask (or the arguments it is built from)
    oracle,             \* the arguments and the service's answers, when a function is
                        \* called on its own
    docs_made,          \* number of DocumentSource objects created so far (fresh ids)
    result,             \* what run() handed to its caller
    hist,               \* observation only: the calls made so far, what the last
                        \* iteration decided and dispatched, why the loop stopped
    research_tasks,     \* api.py: the module's dict research_tasks (task id -> state)
    background_tasks,   \* api.py: the run_research_workflow calls that were added as
                        \* background tasks and have not run yet
    response            \* api.py: the answer to the last HTTP request

vars == <<pc, iteration, pdf_paths, decision, current_step, documents,
          search_results, errors, analysis_results, essay, cfg, task, oracle,
          docs_made, result, hist, research_tasks, background_tasks, response>>

api_vars == <<research_tasks, background_tasks, response>>

state_vars == <<current_step, documents, search_results, errors,
                analysis_results, essay>>

----------------------------------------------------------------------------
(* Bounds of the model *)

MaxDocs == 1            \* documents created in one run
MaxNew == 1             \* documents one acquisition step can bring
MaxBatch == 3           \* documents given to the filter or the ranking called on its own

(* Program constants *)

max_iterations == 10
ErrorBudget == 5
RELEVANCE_THRESHOLD == 6
DefaultMaxRelevantSources == 10

None == "None"
Absent == "<absent>"

(* An entry of AgentState.errors. The texts differ by agent and by the     *)
(* exception they quote; nothing in the program reads them back (they are  *)
(* only joined into the prompt of determine_next_step), so an entry is     *)
(* kept as the fact that one was appended.                                 *)
ErrorEntry == "error"

(* models.py: ResearchStep, the values of the enum *)
ResearchStep ==
    { "initialized", "completed",
      "pdf_processing", "pdf_processing_completed",
      "web_searching", "web_searching_completed",
      "analyzing_data", "analyzing_completed",
      "writing_essay", "writing_essay_completed" }

(* The string literals the supervisor, PDF and web agents compare with or    *)
(* assign to current_step; none of them is a value of ResearchStep.          *)
LegacySteps ==
    { "pdf_completed", "web_search_completed", "analysis_completed",
      "essay_completed" }

StepValues == ResearchStep \cup LegacySteps

----------------------------------------------------------------------------
(* Small helpers *)

Min(a, b) == IF a <= b THEN a ELSE b

(* list a is the beginning of list b: b was only appended to *)
IsPrefix(a, b) == Len(a) <= Len(b) /\ SubSeq(b, 1, Len(a)) = a

(* The keys of the decision object, and dict.get(key, default) on a        *)
(* decision d whose field `has` is the set of keys it holds                *)
DecisionKeys == { "next_step", "reasoning", "should_continue", "recommendations" }

Get(d, key, default) == IF key \in d.has THEN d[key] ELSE default

(* The AgentState as one value, for the functions that take `state` *)
AgentState ==
    [ current_step |-> current_step, documents |-> documents,
      search_results |-> search_results, errors |-> errors,
      analysis_results |-> analysis_results, essay |-> essay ]

(* An Optional record field is << >> (None) or <<value>> *)
Nothing == << >>
Some(x) == <<x>>

(* AnalysisResults(): the default value of AgentState.analysis_results *)
DefaultAnalysisResults ==
    [ data_summary |-> Nothing, relevance_assessments |-> << >>,
      filtered_documents |-> << >>, quality_metrics |-> Nothing ]

(* api.py as it is loaded: no task stored, no background task added, no   *)
(* request answered                                                        *)
NoTasks == [ i \in {} |-> None ]

ApiIdle ==
    /\ research_tasks = NoTasks
    /\ background_tasks = << >>
    /\ response = None

(* essay_outline, final_essay and essay_validation_result all None *)
NoEssay == [ outline |-> None, final |-> Nothing, validation |-> None ]

----------------------------------------------------------------------------
(* SupervisorAgent._fallback_decision_logic *)

Decision(step, cont) ==
    [ source |-> "fallback", has |-> DecisionKeys,
      next_step |-> step, should_continue |-> cont ]

_fallback_decision_logic_reads_errors(st, c) ==
    IF st.errors # << >> THEN Decision("completed", FALSE)
    ELSE IF st.current_step = "initialized" THEN Decision("pdf_processing", TRUE)
    ELSE Decision("completed", FALSE)

_fallback_decision_logic_retries(st, c) ==
    IF st.current_step \in {"initialized", "pdf_processing"}
    THEN Decision("pdf_processing", TRUE)
    ELSE IF st.current_step = "pdf_completed" THEN
        IF c.ENABLE_WEB_SEARCH THEN Decision("web_searching", TRUE)
        ELSE Decision("analyzing_data", TRUE)
    ELSE IF st.current_step = "web_search_completed" THEN Decision("analyzing_data", TRUE)
    ELSE Decision("completed", FALSE)

_fallback_decision_logic(st, c) ==
    IF st.current_step = "initialized" THEN Decision("pdf_processing", TRUE)
    ELSE IF st.current_step = "pdf_completed" THEN
        IF c.ENABLE_WEB_SEARCH THEN Decision("web_searching", TRUE)
        ELSE Decision("analyzing_data", TRUE)
    ELSE IF st.current_step = "web_search_completed" THEN Decision("analyzing_data", TRUE)
    ELSE IF st.current_step = "analysis_completed" THEN Decision("writing_essay", TRUE)
    ELSE IF st.current_step = "essay_completed" THEN Decision("completed", FALSE)
    ELSE Decision("completed", FALSE)

----------------------------------------------------------------------------
(* SupervisorAgent.determine_next_step                                     *)
(*                                                                         *)
(* What the try block yields: "raise" (an exception while the prompt is    *)
(* formatted or the service is invoked, a timeout included), "malformed"   *)
(* (json.loads raises JSONDecodeError), "non_object" (valid JSON that is   *)
(* no object: a list, a number, a string, null) and "object" (a JSON       *)
(* object, with whatever keys the service chose to send).                  *)
(* Formatting the prompt reads state.task.max_sources (line 99), and with  *)
(* the ResearchTask of models.py, which names the field                    *)
(* max_relevant_sources, that read is one of the "raise" cases.            *)

StepNames == { "pdf_processing", "web_searching", "analyzing_data",
               "writing_essay", "completed" }

(* The key sets the service's object is drawn with: every key, every key  *)
(* but one, no key at all. A key that is absent holds a filler value that  *)
(* nothing reads.                                                          *)
KeySets == {DecisionKeys, {}} \cup { DecisionKeys \ {k} : k \in DecisionKeys }

LLMObjects ==
    { r \in [ kind : {"object"}, has : KeySets,
              next_step : StepNames \cup {"no_such_step", Absent},
              should_continue : BOOLEAN ] :
        /\ (r.next_step = Absent) <=> ("next_step" \notin r.has)
        /\ ("should_continue" \notin r.has) => (r.should_continue = FALSE) }

LLMResponses ==
    LLMObjects \cup
    [ kind : {"raise", "malformed", "non_object"}, has : {{}},
      next_step : {Absent}, should_continue : {FALSE} ]

determine_next_step(st, c, resp) ==
    IF resp.kind \in {"raise", "malformed"}
    THEN _fallback_decision_logic(st, c)
    ELSE [ source |-> resp.kind, has |-> resp.has, next_step |-> resp.next_step,
           should_continue |-> resp.should_continue ]

NoDecision == [ source |-> None, has |-> {}, next_step |-> Absent,
                should_continue |-> FALSE ]

----------------------------------------------------------------------------
(* Documents. A DocumentSource is its id (fresh for every document made)   *)
(* and its source_type.                                                    *)

NewDocs(k, kind, made) == [ i \in 1..k |-> [ id |-> made + i, source_type |-> kind ] ]

Ids(docs) == [ i \in 1..Len(docs) |-> docs[i].id ]

(* seq[:n] of Python: the first n elements, all of them when n exceeds the *)
(* length; a negative n counts from the end (all but the last -n).         *)
Take_all(seq, n) == seq

Take(seq, n) ==
    IF n >= 0 THEN SubSeq(seq, 1, Min(n, Len(seq)))
    ELSE SubSeq(seq, 1, IF Len(seq) + n >= 0 THEN Len(seq) + n ELSE 0)

(* ResearchTask as create_research_task builds it: the keyword max_sources *)
(* is no field of the model, so max_relevant_sources keeps its default.    *)
Task == [ max_relevant_sources |-> DefaultMaxRelevantSources ]

(* ResearchTask(...) of models.py: the fields are typed (str, int) and    *)
(* carry no validator and no bound; a keyword that names no field is       *)
(* ignored (pydantic's default), a field that is not given takes its       *)
(* default.                                                                *)
ResearchTask(kwargs) ==
    [ topic |-> kwargs.topic,
      essay_length |-> kwargs.essay_length,
      max_relevant_sources |->
          IF "max_relevant_sources" \in DOMAIN kwargs
          THEN kwargs.max_relevant_sources
          ELSE DefaultMaxRelevantSources ]

(* SupervisorAgent.create_research_task(topic, requirements, max_sources,  *)
(* essay_length)                                                           *)
create_research_task(topic, max_sources, essay_length) ==
    ResearchTask([ topic |-> topic, max_sources |-> max_sources,
                   essay_length |-> essay_length ])

----------------------------------------------------------------------------
(* PDFAgent.run(state, pdf_paths)                                          *)
(* out.fail: "none", "process" (process_pdf_file raises for one of the     *)
(* paths, before anything is added) or "search" (the search of the local   *)
(* store raises, line 158-161, after the new documents were added).        *)
(* out.new: the documents made from the paths; out.found: those the store  *)
(* search returned.                                                        *)

PDFAgent_run_skips_ahead(st, paths, out) ==
    [st EXCEPT !.documents = @ \o out.new \o out.found,
               !.current_step = "analyzing_completed"]

PDFAgent_run(st, paths, out) ==
    LET s1 == [st EXCEPT !.current_step = "pdf_processing"] IN
    IF out.fail = "process"
    THEN [s1 EXCEPT !.errors = Append(@, ErrorEntry)]
    ELSE LET s2 == [s1 EXCEPT !.documents = @ \o out.new] IN
         IF out.fail = "search"
         THEN [s2 EXCEPT !.errors = Append(@, ErrorEntry)]
         ELSE [s2 EXCEPT !.documents = @ \o out.found,
                         !.current_step = "pdf_completed"]

(* WebSearchAgent.run(state) *)
WebSearchAgent_run_replaces(st, out) ==
    [st EXCEPT !.documents = out.new,
               !.search_results = @ \o Ids(out.new),
               !.current_step = "web_search_completed"]

WebSearchAgent_run_drops_error(st, out) ==
    LET s1 == [st EXCEPT !.current_step = "web_searching"] IN
    IF out.fail # "none"
    THEN s1
    ELSE [s1 EXCEPT !.documents = @ \o out.new,
                    !.search_results = @ \o Ids(out.new),
                    !.current_step = "web_search_completed"]

WebSearchAgent_run(st, out) ==
    LET s1 == [st EXCEPT !.current_step = "web_searching"] IN
    IF out.fail # "none"
    THEN [s1 EXCEPT !.errors = Append(@, ErrorEntry)]
    ELSE [s1 EXCEPT !.documents = @ \o out.new,
                    !.search_results = @ \o Ids(out.new),
                    !.current_step = "web_search_completed"]

----------------------------------------------------------------------------
(* AnalystAgent: scoring, filtering, ranking, summary *)

(* assess_document_relevance(document, topic, requirements). resp is what  *)
(* the try block meets: "error" (the service call, the parsing or the      *)
(* construction of the assessment raises anything but JSONDecodeError),    *)
(* "malformed" (parse_llm_response raises JSONDecodeError), "empty_object" *)
(* (a JSON object without the keys) or "object" (the keys as sent).        *)
assess_document_relevance(document, resp) ==
    IF resp.kind = "error"
    THEN [ document_id |-> document.id, relevance_score |-> 5, confidence |-> 0 ]
    ELSE IF resp.kind \in {"malformed", "empty_object"}
    THEN [ document_id |-> document.id, relevance_score |-> 5, confidence |-> 5 ]
    ELSE [ document_id |-> document.id, relevance_score |-> resp.relevance_score,
           confidence |-> resp.confidence ]

(* assess_document_quality(document): the same try blocks; every default   *)
(* is 0.5, "medium" and "include", in the JSONDecodeError branch           *)
(* (180-187), in the .get defaults (191-198) and in the outer except       *)
(* (206-214).                                                              *)
assess_document_quality_zero_on_error(document, resp) ==
    IF resp.kind = "error"
    THEN [ document_id |-> document.id, credibility_score |-> 0,
           information_quality |-> 0, currency_score |-> 0,
           overall_quality |-> "low", recommendation |-> "exclude" ]
    ELSE IF resp.kind \in {"malformed", "empty_object"}
    THEN [ document_id |-> document.id, credibility_score |-> 5,
           information_quality |-> 5, currency_score |-> 5,
           overall_quality |-> "medium", recommendation |-> "include" ]
    ELSE [ document_id |-> document.id, credibility_score |-> resp.credibility_score,
           information_quality |-> resp.information_quality,
           currency_score |-> resp.currency_score,
           overall_quality |-> resp.overall_quality,
           recommendation |-> resp.recommendation ]

assess_document_quality(document, resp) ==
    IF resp.kind \in {"error", "malformed", "empty_object"}
    THEN [ document_id |-> document.id, credibility_score |-> 5,
           information_quality |-> 5, currency_score |-> 5,
           overall_quality |-> "medium", recommendation |-> "include" ]
    ELSE [ document_id |-> document.id, credibility_score |-> resp.credibility_score,
           information_quality |-> resp.information_quality,
           currency_score |-> resp.currency_score,
           overall_quality |-> resp.overall_quality,
           recommendation |-> resp.recommendation ]

(* quality_score of rank_documents_by_quality: the mean of the three       *)
(* scores. It is kept as their sum, three times the mean, which orders and *)
(* ties the same way and stays an integer.                                 *)
quality_score(quality_assessment) ==
    quality_assessment.credibility_score + quality_assessment.information_quality
        + quality_assessment.currency_score

(* filter_documents_by_relevance: rel[i] is the service's answer for       *)
(* documents[i]; every document is assessed, and kept when its             *)
(* relevance_score >= threshold                                            *)
RECURSIVE KeepFrom_strict(_, _, _)
KeepFrom_strict(assessments, threshold, i) ==
    IF i > Len(assessments) THEN << >>
    ELSE IF assessments[i].relevance_score > threshold
         THEN <<i>> \o KeepFrom_strict(assessments, threshold, i + 1)
         ELSE KeepFrom_strict(assessments, threshold, i + 1)

RECURSIVE KeepFrom(_, _, _)
KeepFrom(assessments, threshold, i) ==
    IF i > Len(assessments) THEN << >>
    ELSE IF assessments[i].relevance_score >= threshold
         THEN <<i>> \o KeepFrom(assessments, threshold, i + 1)
         ELSE KeepFrom(assessments, threshold, i + 1)

filter_documents_by_relevance_kept_only(docs, rel, threshold) ==
    LET all == [ i \in 1..Len(docs) |-> assess_document_relevance(docs[i], rel[i]) ]
        kept == KeepFrom(all, threshold, 1)
    IN [ relevant_documents |-> [ j \in 1..Len(kept) |-> docs[kept[j]] ],
         kept_index |-> kept,
         assessments |-> [ j \in 1..Len(kept) |-> all[kept[j]] ] ]

filter_documents_by_relevance(docs, rel, threshold) ==
    LET assessments == [ i \in 1..Len(docs) |->
                           assess_document_relevance(docs[i], rel[i]) ]
        kept == KeepFrom(assessments, threshold, 1)
    IN [ relevant_documents |-> [ j \in 1..Len(kept) |-> docs[kept[j]] ],
         kept_index |-> kept,
         assessments |-> assessments ]

(* sorted(..., key=quality_score, reverse=True): descending and stable     *)
(* (reverse=True keeps equal elements in their original order). SortDesc   *)
(* inserts index i into the sorted indices behind it: x goes behind every  *)
(* index of a higher score and in front of the first one of a score <= its *)
(* own, so that it stays in front of the later indices it ties with.       *)
RECURSIVE InsertDesc_behind_ties(_, _, _)
InsertDesc_behind_ties(sorted, x, q) ==
    IF sorted = << >> THEN <<x>>
    ELSE IF q[Head(sorted)] >= q[x]
         THEN <<Head(sorted)>> \o InsertDesc_behind_ties(Tail(sorted), x, q)
         ELSE <<x>> \o sorted

RECURSIVE InsertDesc(_, _, _)
InsertDesc(sorted, x, q) ==
    IF sorted = << >> THEN <<x>>
    ELSE IF q[Head(sorted)] > q[x]
         THEN <<Head(sorted)>> \o InsertDesc(Tail(sorted), x, q)
         ELSE <<x>> \o sorted

RECURSIVE SortDesc(_, _, _)
SortDesc(n, i, q) ==
    IF i > n THEN << >>
    ELSE InsertDesc(SortDesc(n, i + 1, q), i, q)

(* rank_documents_by_quality, lines 247-253: the assessments the loop      *)
(* collects, one per document; qual[j] is the service's answer for docs[j] *)
document_qualities(docs, qual) ==
    [ j \in 1..Len(docs) |-> assess_document_quality(docs[j], qual[j]) ]

(* rank_documents_by_quality: the documents in the order of their scores *)
rank_documents_by_quality(docs, qual) ==
    LET q == [ j \in 1..Len(docs) |->
                 quality_score(document_qualities(docs, qual)[j]) ]
        order == SortDesc(Len(docs), 1, q)
    IN [ j \in 1..Len(docs) |-> docs[order[j]] ]

CountKind(docs, kind) == Cardinality({ i \in 1..Len(docs) : docs[i].source_type = kind })

_generate_data_summary_moderate_above_5(docs) ==
    IF docs = << >>
    THEN [ total_documents |-> 0, source_distribution |-> << >>,
           data_coverage |-> "none" ]
    ELSE [ total_documents |-> Len(docs),
           source_distribution |->
               [ k \in { docs[i].source_type : i \in 1..Len(docs) } |-> CountKind(docs, k) ],
           data_coverage |-> IF Len(docs) >= 10 THEN "comprehensive"
                             ELSE IF Len(docs) > 5 THEN "moderate"
                             ELSE "limited" ]

_generate_data_summary(docs) ==
    IF docs = << >>
    THEN [ total_documents |-> 0, source_distribution |-> << >>,
           data_coverage |-> "none" ]
    ELSE [ total_documents |-> Len(docs),
           source_distribution |->
               [ k \in { docs[i].source_type : i \in 1..Len(docs) } |-> CountKind(docs, k) ],
           data_coverage |-> IF Len(docs) >= 10 THEN "comprehensive"
                             ELSE IF Len(docs) >= 5 THEN "moderate"
                             ELSE "limited" ]

(* AnalystAgent.run(state). out.rel[i] and out.qual[i] are the answers of  *)
(* the service for documents[i]; out.fail: an exception inside the try     *)
(* block before state.documents is assigned.                               *)
AnalystAgent_run_counts_before_cut(st, t, out) ==
    LET s1 == [st EXCEPT !.current_step = "analyzing_data"] IN
    IF st.documents = << >>
    THEN [s1 EXCEPT !.current_step = "analyzing_completed"]
    ELSE IF out.fail # "none"
    THEN [s1 EXCEPT !.errors = Append(@, ErrorEntry)]
    ELSE
      LET f == filter_documents_by_relevance(st.documents, out.rel, RELEVANCE_THRESHOLD)
          q == [ j \in 1..Len(f.kept_index) |-> out.qual[f.kept_index[j]] ]
          ranked_docs == rank_documents_by_quality(f.relevant_documents, q)
          docs == Take(ranked_docs, t.max_relevant_sources)
      IN [s1 EXCEPT
            !.documents = docs,
            !.analysis_results =
                [ data_summary |-> Some(_generate_data_summary(ranked_docs)),
                  relevance_assessments |-> f.assessments,
                  filtered_documents |-> Ids(ranked_docs),
                  quality_metrics |-> Some([ total_assessed |-> Len(f.assessments),
                                             relevant_found |-> Len(ranked_docs) ]) ],
            !.current_step = "analyzing_completed"]

AnalystAgent_run_swallows(st, t, out) ==
    IF st.documents = << >>
    THEN [st EXCEPT !.current_step = "analyzing_completed"]
    ELSE [st EXCEPT !.current_step = "analyzing_data"]

AnalystAgent_run(st, t, out) ==
    LET s1 == [st EXCEPT !.current_step = "analyzing_data"] IN
    IF st.documents = << >>
    THEN [s1 EXCEPT !.current_step = "analyzing_completed"]
    ELSE IF out.fail # "none"
    THEN [s1 EXCEPT !.errors = Append(@, ErrorEntry)]
    ELSE
      LET f == filter_documents_by_relevance(st.documents, out.rel, RELEVANCE_THRESHOLD)
          q == [ j \in 1..Len(f.kept_index) |-> out.qual[f.kept_index[j]] ]
          ranked_docs == rank_documents_by_quality(f.relevant_documents, q)
          docs == Take(ranked_docs, t.max_relevant_sources)
      IN [s1 EXCEPT
            !.documents = docs,
            !.analysis_results =
                [ data_summary |-> Some(_generate_data_summary(docs)),
                  relevance_assessments |-> f.assessments,
                  filtered_documents |-> Ids(docs),
                  quality_metrics |-> Some([ total_assessed |-> Len(f.assessments),
                                             relevant_found |-> Len(docs) ]) ],
            !.current_step = "analyzing_completed"]

----------------------------------------------------------------------------
(* EssayWriterAgent.run(state).                                            *)
(* create_essay_outline never raises: it returns the outline of the        *)
(* service ("llm"), or, when the call, the parsing or the construction of  *)
(* the outline fails, the templated one (lines 130-143 and 156-169):       *)
(* out.outline. write_essay never raises either: it returns the essay the  *)
(* service wrote ("llm"), or, when that fails, one whose content is put    *)
(* together from the title, introduction, main points and conclusion of    *)
(* the outline (lines 213-233): out.body. Nothing else in the try block of *)
(* run can raise, so its except clause (275-278) has nothing to catch.     *)
(* The validation result is kept as the fact that one was stored.          *)
Essay(st, outline, body) ==
    [ sources |-> st.documents, outline |-> outline,
      content |-> IF body = "llm" THEN [ by |-> "llm", of |-> None ]
                  ELSE [ by |-> "outline", of |-> outline ] ]

EssayWriterAgent_run_writes_on_empty(st, out) ==
    LET s1 == [st EXCEPT !.current_step = "writing_essay"]
        o == IF out.outline = None THEN "template" ELSE out.outline
        b == IF out.body = None THEN "basic" ELSE out.body
    IN [s1 EXCEPT
          !.essay.outline = o,
          !.essay.final = Some(Essay(st, o, b)),
          !.essay.validation = "set",
          !.current_step = "writing_essay_completed"]

EssayWriterAgent_run_raises_on_body_failure(st, out) ==
    LET s1 == [st EXCEPT !.current_step = "writing_essay"] IN
    IF st.documents = << >>
    THEN [s1 EXCEPT !.current_step = "writing_essay_completed"]
    ELSE LET s2 == [s1 EXCEPT !.essay.outline = out.outline] IN
         IF out.body # "llm"
         THEN [s2 EXCEPT !.errors = Append(@, ErrorEntry)]
         ELSE [s2 EXCEPT
                 !.essay.final = Some(Essay(st, out.outline, out.body)),
                 !.essay.validation = "set",
                 !.current_step = "writing_essay_completed"]

EssayWriterAgent_run(st, out) ==
    LET s1 == [st EXCEPT !.current_step = "writing_essay"] IN
    IF st.documents = << >>
    THEN [s1 EXCEPT !.current_step = "writing_essay_completed"]
    ELSE [s1 EXCEPT
            !.essay.outline = out.outline,
            !.essay.final = Some(Essay(st, out.outline, out.body)),
            !.essay.validation = "set",
            !.current_step = "writing_essay_completed"]

----------------------------------------------------------------------------
(* SupervisorAgent.execute_step(state, step, pdf_paths)                    *)
(* Every handler catches Exception inside its own run, so the except       *)
(* clause of lines 205-208 has nothing to catch.                           *)

execute_step_catches_again(st, t, step, paths, c, out) ==
    LET s == IF step = "pdf_processing" THEN PDFAgent_run(st, paths, out)
             ELSE IF step = "web_searching" THEN
                 IF c.ENABLE_WEB_SEARCH THEN WebSearchAgent_run(st, out)
                 ELSE [st EXCEPT !.current_step = "web_search_completed"]
             ELSE IF step = "analyzing_data" THEN AnalystAgent_run(st, t, out)
             ELSE IF step = "writing_essay" THEN EssayWriterAgent_run(st, out)
             ELSE [st EXCEPT !.errors = Append(@, ErrorEntry)]
    IN IF out.fail # "none" THEN [s EXCEPT !.errors = Append(@, ErrorEntry)] ELSE s

execute_step_skip_is_error(st, t, step, paths, c, out) ==
    IF step = "pdf_processing" THEN PDFAgent_run(st, paths, out)
    ELSE IF step = "web_searching" THEN
        IF c.ENABLE_WEB_SEARCH THEN WebSearchAgent_run(st, out)
        ELSE [st EXCEPT !.current_step = "web_search_completed",
                        !.errors = Append(@, ErrorEntry)]
    ELSE IF step = "analyzing_data" THEN AnalystAgent_run(st, t, out)
    ELSE IF step = "writing_essay" THEN EssayWriterAgent_run(st, out)
    ELSE [st EXCEPT !.errors = Append(@, ErrorEntry)]

execute_step_unknown_moves(st, t, step, paths, c, out) ==
    [st EXCEPT !.errors = Append(@, ErrorEntry), !.current_step = "completed"]

execute_step(st, t, step, paths, c, out) ==
    IF step = "pdf_processing" THEN PDFAgent_run(st, paths, out)
    ELSE IF step = "web_searching" THEN
        IF c.ENABLE_WEB_SEARCH THEN WebSearchAgent_run(st, out)
        ELSE [st EXCEPT !.current_step = "web_search_completed"]
    ELSE IF step = "analyzing_data" THEN AnalystAgent_run(st, t, out)
    ELSE IF step = "writing_essay" THEN EssayWriterAgent_run(st, out)
    ELSE [st EXCEPT !.errors = Append(@, ErrorEntry)]

(* What the collaborators of a step can answer, given the state it runs on *)
RelScores == {5, 6}
QualScores == {5}
RelAnswers ==
    { [ kind |-> "object", relevance_score |-> x, confidence |-> 9 ] : x \in RelScores }
QualAnswers ==
    { [ kind |-> "object", credibility_score |-> x, information_quality |-> x,
        currency_score |-> x, overall_quality |-> "medium",
        recommendation |-> "include" ] : x \in QualScores }
OutlineKinds == {"llm", "template"}
BodyKinds == {"llm", "basic"}

NoOutcome ==
    [ fail |-> "none", new |-> << >>, found |-> << >>, rel |-> << >>,
      qual |-> << >>, outline |-> None, body |-> None ]

Room(made) == Min(MaxNew, MaxDocs - made)

Outcomes(st, step, paths, c, made) ==
    IF step = "pdf_processing" THEN
        { [NoOutcome EXCEPT !.fail = "process"] : x \in { p \in {paths} : p # None } }
        \cup
        UNION { { [NoOutcome EXCEPT !.fail = "search", !.new = NewDocs(k, "pdf", made)] }
                \cup
                { [NoOutcome EXCEPT !.new = NewDocs(k, "pdf", made),
                                    !.found = NewDocs(r, "pdf", made + k)] :
                    r \in { n \in 0..Room(made + k) : c.store_ok \/ n = 0 } } :
                k \in { n \in 0..Room(made) : paths # None \/ n = 0 } }
    ELSE IF step = "web_searching" /\ c.ENABLE_WEB_SEARCH THEN
        { [NoOutcome EXCEPT !.fail = "raise"] }
        \cup { [NoOutcome EXCEPT !.new = NewDocs(k, "web", made)] : k \in 0..Room(made) }
    ELSE IF step = "analyzing_data" /\ st.documents # << >> THEN
        { [NoOutcome EXCEPT !.fail = "raise"] }
        \cup { [NoOutcome EXCEPT !.rel = rel, !.qual = qual] :
                 rel \in [1..Len(st.documents) -> RelAnswers],
                 qual \in [1..Len(st.documents) -> QualAnswers] }
    ELSE IF step = "writing_essay" /\ st.documents # << >> THEN
        { [NoOutcome EXCEPT !.outline = o, !.body = b] :
            o \in OutlineKinds, b \in BodyKinds }
    ELSE { NoOutcome }

----------------------------------------------------------------------------
(* The state AgentState(task=task, current_step="initialized") starts as *)

InitialState ==
    [ current_step |-> "initialized", documents |-> << >>,
      search_results |-> << >>, errors |-> << >>,
      analysis_results |-> DefaultAnalysisResults, essay |-> NoEssay ]

(* SupervisorAgent.run, lines 304-310: the state built in the except clause *)
ErrorState == [InitialState EXCEPT !.errors = <<"Supervisor error">>]

SetState(st) ==
    /\ current_step' = st.current_step
    /\ documents' = st.documents
    /\ search_results' = st.search_results
    /\ errors' = st.errors
    /\ analysis_results' = st.analysis_results
    /\ essay' = st.essay

Config == [ ENABLE_WEB_SEARCH : BOOLEAN, api_key : BOOLEAN, store_ok : BOOLEAN ]

Init ==
    /\ pc = "run"
    /\ ApiIdle
    /\ iteration = 0
    /\ pdf_paths \in {None, "paths"}
    /\ decision = NoDecision
    /\ current_step = InitialState.current_step
    /\ documents = InitialState.documents
    /\ search_results = InitialState.search_results
    /\ errors = InitialState.errors
    /\ analysis_results = InitialState.analysis_results
    /\ essay = InitialState.essay
    /\ cfg \in Config
    /\ task = Task
    /\ oracle = None
    /\ docs_made = 0
    /\ result = None
    /\ hist = [ decides |-> 0, dispatches |-> 0, step |-> None, paths |-> None,
                cont |-> FALSE, failed |-> FALSE, stop |-> None ]

(* run, lines 295-297 and 304-310: config.validate() raises without an API *)
(* key; the except clause returns a fresh state carrying the error.         *)
RunValidateFails ==
    /\ pc = "run"
    /\ UNCHANGED api_vars
    /\ ~cfg.api_key
    /\ SetState(ErrorState)
    /\ result' = "error_state"
    /\ pc' = "done"
    /\ UNCHANGED <<iteration, pdf_paths, decision, cfg, task, oracle, docs_made, hist>>

(* run, line 300, and run_research_workflow, lines 217-223 *)
RunStart ==
    /\ pc = "run"
    /\ UNCHANGED api_vars
    /\ cfg.api_key
    /\ SetState(InitialState)
    /\ iteration' = 0
    /\ pc' = "loop"
    /\ UNCHANGED <<pdf_paths, decision, cfg, task, oracle, docs_made, result, hist>>

(* while iteration < max_iterations *)
LoopGuard_inclusive(i) == i <= max_iterations

LoopGuard(i) == i < max_iterations

(* Lines 245-253: the two break tests, on the decision d of the iteration  *)
(* and the state st the dispatch left                                      *)
(* Line 243: pdf_paths = None, whatever it held *)
ClearedPaths_kept(paths) == paths

ClearedPaths(paths) == None

StopByDecision_ignores_completed(d) == ~Get(d, "should_continue", FALSE)

StopByDecision(d) ==
    (~Get(d, "should_continue", FALSE)) \/ Get(d, "next_step", "completed") = "completed"

StopByErrors_at_budget(st) == Len(st.errors) >= ErrorBudget

StopByErrors(st) == Len(st.errors) > ErrorBudget

(* One pass of the loop body, lines 225-253, in the order of the code:     *)
(*   the loop test and iteration += 1;                                     *)
(*   decision = determine_next_step(state) and the two decision.get calls  *)
(*     (a decision that is no dict has no get: the AttributeError leaves   *)
(*     run_research_workflow and run's except clause returns the fresh     *)
(*     error state);                                                       *)
(*   state = execute_step(state, next_step, pdf_paths);                    *)
(*   pdf_paths = None;                                                     *)
(*   the two break tests; after a break the state is returned (lines       *)
(*     255-263; run, line 302).                                            *)
(* The local `decision` is read again only after the next                  *)
(* determine_next_step: it is cleared when the loop goes on.               *)
LoopBody ==
    /\ pc = "loop"
    /\ UNCHANGED api_vars
    /\ LoopGuard(iteration)
    /\ iteration' = iteration + 1
    /\ \E resp \in LLMResponses :
         LET d == determine_next_step(AgentState, cfg, resp)
             step == Get(d, "next_step", "completed")
             should_continue == Get(d, "should_continue", FALSE)
         IN
         IF d.source = "non_object"
         THEN /\ SetState(ErrorState)
              /\ result' = "error_state"
              /\ pc' = "done"
              /\ decision' = d
              /\ hist' = [hist EXCEPT !.decides = @ + 1, !.step = None,
                                      !.paths = None,
                                      !.cont = FALSE, !.failed = FALSE,
                                      !.stop = "raised"]
              /\ UNCHANGED <<pdf_paths, docs_made>>
         ELSE \E out \in Outcomes(AgentState, step, pdf_paths, cfg, docs_made) :
              LET st == execute_step(AgentState, task, step, pdf_paths, cfg, out)
                  stop == IF StopByDecision(d) THEN "decision"
                          ELSE IF StopByErrors(st) THEN "errors" ELSE None
              IN
              /\ SetState(st)
              /\ docs_made' = docs_made + Len(out.new) + Len(out.found)
              /\ pdf_paths' = ClearedPaths(pdf_paths)
              /\ hist' = [hist EXCEPT !.decides = @ + 1, !.dispatches = @ + 1,
                                      !.step = step, !.paths = pdf_paths,
                                      !.cont = should_continue,
                                      !.failed = (out.fail # "none"),
                                      !.stop = stop]
              /\ IF stop # None
                 THEN pc' = "done" /\ decision' = d /\ result' = "state"
                 ELSE pc' = "loop" /\ decision' = NoDecision /\ UNCHANGED result
    /\ UNCHANGED <<cfg, task, oracle>>

(* The loop test fails: the iteration cap is reached, and the state is     *)
(* returned (lines 255-263; run, line 302)                                 *)
LoopEnd ==
    /\ pc = "loop"
    /\ UNCHANGED api_vars
    /\ ~LoopGuard(iteration)
    /\ pc' = "done"
    /\ result' = "state"
    /\ hist' = [hist EXCEPT !.stop = "max_iterations"]
    /\ UNCHANGED <<iteration, pdf_paths, decision, state_vars, cfg, task, oracle,
                   docs_made>>

Next ==
    \/ RunValidateFails
    \/ RunStart
    \/ LoopBody
    \/ LoopEnd

Spec == Init /\ [][Next]_vars

----------------------------------------------------------------------------
(* _fallback_decision_logic as a function of its own: it is called on a    *)
(* state whose current_step is any value of ResearchStep or any of the     *)
(* literals the agents assign, with and without documents and errors.      *)

InitFallback ==
    /\ pc = "fallback"
    /\ ApiIdle
    /\ iteration = 0
    /\ pdf_paths = None
    /\ decision = NoDecision
    /\ current_step \in StepValues
    /\ documents \in { << >>, NewDocs(1, "pdf", 0) }
    /\ search_results = << >>
    /\ errors \in { << >>, <<ErrorEntry>> }
    /\ analysis_results = DefaultAnalysisResults
    /\ essay = NoEssay
    /\ cfg \in Config
    /\ task = Task
    /\ oracle = None
    /\ docs_made = Len(documents)
    /\ result = None
    /\ hist = [ decides |-> 0, dispatches |-> 0, step |-> None, paths |-> None,
                cont |-> FALSE, failed |-> FALSE, stop |-> None ]

FallbackCall ==
    /\ pc = "fallback"
    /\ UNCHANGED api_vars
    /\ decision' = _fallback_decision_logic(AgentState, cfg)
    /\ pc' = "fallback_returned"
    /\ UNCHANGED <<iteration, pdf_paths, state_vars, cfg, task, oracle, docs_made,
                   result, hist>>

NextFallback == FallbackCall

SpecFallback == InitFallback /\ [][NextFallback]_vars

----------------------------------------------------------------------------
(* Properties of the workflow loop *)

(* C1: whatever the decisions are, run_research_workflow makes at most     *)
(* max_iterations (10) decide calls and at most as many dispatches before  *)
(* it returns the state; a run that never gets a stopping decision         *)
(* returns after exactly 10 of each.                                       *)
C1_LoopBounded ==
    /\ iteration <= 10
    /\ hist.decides = iteration
    /\ hist.dispatches <= hist.decides
    /\ (hist.stop = "max_iterations") =>
           (pc = "done" /\ result = "state" /\ hist.dispatches = 10)

C1_Witness ==
    /\ pc = "done" /\ result = "state"
    /\ hist.stop = "max_iterations"
    /\ hist.decides = 10 /\ hist.dispatches = 10
    /\ hist.cont /\ hist.step # "completed"

C3_IterationOrder ==
    [][ /\ pc # "done"
        /\ (hist'.dispatches # hist.dispatches) =>
              /\ hist'.dispatches = hist.dispatches + 1
              /\ hist'.decides = hist.decides + 1
              /\ iteration' = iteration + 1
              /\ pdf_paths' = None
        /\ (pc = "loop" /\ pc' = "loop") =>
              /\ hist'.dispatches = hist.dispatches + 1
              /\ hist'.cont /\ hist'.step # "completed"
              /\ Len(errors') <= 5
        /\ (pc = "loop" /\ pc' = "done" /\ result' = "state") =>
              \/ /\ hist'.stop = "decision"
                 /\ hist'.dispatches = hist.dispatches + 1
                 /\ (~hist'.cont) \/ hist'.step = "completed"
              \/ /\ hist'.stop = "errors"
                 /\ hist'.dispatches = hist.dispatches + 1
                 /\ hist'.cont /\ hist'.step # "completed"
                 /\ Len(errors') > 5
              \/ /\ hist'.stop = "max_iterations"
                 /\ hist'.dispatches = hist.dispatches
                 /\ iteration = 10
      ]_vars

C3_Witness ==
    /\ pc = "done" /\ result = "state" /\ hist.stop = "decision"
    /\ iteration = 3 /\ hist.dispatches = 3
    /\ hist.cont /\ hist.step = "completed"

----------------------------------------------------------------------------
(* Properties of the fallback decision *)

(* C4: for every current_step (each value of ResearchStep, each literal    *)
(* the agents assign) and both values of ENABLE_WEB_SEARCH the fallback    *)
(* returns a decision with the four keys, a next step out of the five step *)
(* names and a boolean should_continue, and it is the decision the same    *)
(* (current_step, flag) gets on a state that is otherwise blank: nothing   *)
(* else of the state or of the configuration is read.                      *)
C4_FallbackTotal ==
    (pc = "fallback_returned") =>
        /\ decision.has = DecisionKeys
        /\ decision.next_step \in StepNames
        /\ decision.should_continue \in BOOLEAN
        /\ decision =
             _fallback_decision_logic(
                 [InitialState EXCEPT !.current_step = current_step],
                 [ ENABLE_WEB_SEARCH |-> cfg.ENABLE_WEB_SEARCH,
                   api_key |-> TRUE, store_ok |-> TRUE ])

C4_Witness ==
    /\ pc = "fallback_returned"
    /\ current_step = "web_searching_completed"
    /\ errors # << >> /\ documents # << >>
    /\ ~cfg.api_key /\ ~cfg.store_ok
    /\ decision.next_step = "completed"

(* The table of the specification, on the values of ResearchStep *)
SpecTable(step, flag) ==
    CASE step = "initialized" -> "pdf_processing"
      [] step = "pdf_processing_completed" ->
             IF flag THEN "web_searching" ELSE "analyzing_data"
      [] step = "web_searching_completed" -> "analyzing_data"
      [] step = "analyzing_completed" -> "writing_essay"
      [] step = "writing_essay_completed" -> "completed"
      [] OTHER -> "completed"

(* C5: for every value of ResearchStep as current_step the fallback        *)
(* decision is the one of the table: INITIALIZED -> pdf_processing,        *)
(* PDF_COMPLETED -> web_searching or analyzing_data by the flag,           *)
(* WEB_SEARCH_COMPLETED -> analyzing_data, ANALYSIS_COMPLETED ->           *)
(* writing_essay, ESSAY_COMPLETED -> completed, any other -> completed     *)
(* with should_continue false.                                             *)
C5_FallbackTable ==
    (pc = "fallback_returned" /\ current_step \in ResearchStep) =>
        /\ decision.next_step = SpecTable(current_step, cfg.ENABLE_WEB_SEARCH)
        /\ (decision.next_step = "completed") => ~decision.should_continue

----------------------------------------------------------------------------
(* Properties of the error handling *)

C7_FailFast ==
    (~cfg.store_ok) =>
        /\ hist.decides = 0 /\ hist.dispatches = 0
        /\ result = None

(* C8: when a handler fails, one entry is appended to errors, current_step *)
(* is the in-progress value the handler set on entry, no state is thrown   *)
(* away, and the loop goes on to its next pass unless the decision of the  *)
(* iteration or the error count stops it.                                  *)
C8_StepFailureContained ==
    [][ (hist'.dispatches = hist.dispatches + 1 /\ hist'.failed) =>
          /\ hist'.step \in {"pdf_processing", "web_searching",
                             "analyzing_data", "writing_essay"}
          /\ errors' = Append(errors, ErrorEntry)
          /\ current_step' = hist'.step
          /\ result' # "error_state"
          /\ \/ pc' = "loop" /\ hist'.cont /\ Len(errors') <= 5
             \/ /\ pc' = "done" /\ result' = "state"
                /\ (~hist'.cont) \/ hist'.step = "completed" \/ Len(errors') > 5
      ]_vars

C8_Witness ==
    /\ pc = "loop" /\ hist.failed
    /\ hist.step = "analyzing_data" /\ current_step = "analyzing_data"
    /\ documents # << >> /\ Len(errors) >= 2

(* C9: the dispatch of a step that names no handler appends exactly one    *)
(* entry to errors, leaves documents, search_results, current_step,        *)
(* analysis_results and the essay fields as they were, and the loop goes   *)
(* on or returns the state as after any other dispatch.                    *)
C9_UnknownStepRecorded ==
    [][ (hist'.dispatches = hist.dispatches + 1 /\ hist'.step = "no_such_step") =>
          /\ errors' = Append(errors, ErrorEntry)
          /\ UNCHANGED <<documents, search_results, current_step,
                         analysis_results, essay>>
          /\ result' # "error_state"
          /\ \/ pc' = "loop" /\ hist'.cont
             \/ pc' = "done" /\ result' = "state"
      ]_vars

C9_Witness ==
    /\ pc = "loop" /\ hist.step = "no_such_step"
    /\ current_step = "analyzing_completed" /\ documents # << >>
    /\ analysis_results # DefaultAnalysisResults
    /\ Len(errors) = 1

(* C10: the dispatch of "completed" leaves every field of the state as it  *)
(* was, errors included.                                                   *)
C10_CompletedIsNoOp ==
    [][ (hist'.dispatches = hist.dispatches + 1 /\ hist'.step = "completed") =>
          UNCHANGED state_vars
      ]_vars

----------------------------------------------------------------------------
(* Properties of the state across a run *)

(* A handler ran in the dispatch that led to the primed state: the step    *)
(* names one, and for web_searching the web search is enabled.             *)
Dispatched == hist'.dispatches = hist.dispatches + 1

HandlerRan ==
    /\ Dispatched
    /\ \/ hist'.step \in {"pdf_processing", "analyzing_data", "writing_essay"}
       \/ hist'.step = "web_searching" /\ cfg.ENABLE_WEB_SEARCH

(* C11: the pdf_paths given to run are passed to the dispatch of the first *)
(* iteration, whatever step that is and however it ends, and pdf_paths is  *)
(* None from then on: every later dispatch is passed None.                 *)
C11_OneShotPaths ==
    [][ Dispatched =>
          /\ hist'.paths = pdf_paths
          /\ pdf_paths' = None
          /\ (iteration' >= 2) => (hist'.paths = None)
      ]_vars

C11_Witness ==
    /\ pc = "loop" /\ iteration = 1
    /\ hist.paths = "paths" /\ pdf_paths = None
    /\ hist.step = "web_searching" /\ hist.failed

C13_StepFollowsDecision ==
    [][ (current_step' # current_step) =>
          \/ result' = "error_state"
          \/ /\ Dispatched
             /\ \/ /\ hist'.step = "pdf_processing"
                   /\ current_step' \in {"pdf_processing", "pdf_completed"}
                \/ /\ hist'.step = "web_searching" /\ cfg.ENABLE_WEB_SEARCH
                   /\ current_step' \in {"web_searching", "web_search_completed"}
                \/ /\ hist'.step = "web_searching" /\ ~cfg.ENABLE_WEB_SEARCH
                   /\ current_step' = "web_search_completed"
                \/ /\ hist'.step = "analyzing_data"
                   /\ current_step' \in {"analyzing_data", "analyzing_completed"}
                \/ /\ hist'.step = "writing_essay"
                   /\ current_step' \in {"writing_essay", "writing_essay_completed"}
      ]_vars

C13_Witness ==
    /\ pc = "loop" /\ hist.step = "web_searching" /\ ~cfg.ENABLE_WEB_SEARCH
    /\ current_step = "web_search_completed" /\ ~hist.failed
    /\ search_results = << >>

(* C13 as stated: current_step changes only inside the handler of the      *)
(* decided step; the engine never assigns a step.                          *)
C13_OnlyHandlersSetStep ==
    [][ (Dispatched /\ current_step' # current_step) => HandlerRan ]_vars

C15_AcquisitionCompletes ==
    [][ (Dispatched /\ HandlerRan /\ hist'.step \in {"pdf_processing", "web_searching"}) =>
          current_step' \in {"pdf_completed", "web_search_completed"}
      ]_vars

(* C29: a synthesis step on a non-empty document list always stores an     *)
(* outline and an essay written from that outline and those documents,     *)
(* ends at "writing_essay_completed" and appends no error, whether or not  *)
(* the outline writing or the body writing failed: a failed outline is     *)
(* the templated one, a failed body is put together from the fields of     *)
(* the outline.                                                            *)
C29_SynthesisAlwaysYields ==
    [][ (Dispatched /\ hist'.step = "writing_essay" /\ documents # << >>) =>
          /\ essay'.outline \in {"llm", "template"}
          /\ essay'.final # Nothing
          /\ essay'.final[1].sources = documents
          /\ essay'.final[1].outline = essay'.outline
          /\ essay'.final[1].content.by \in {"llm", "outline"}
          /\ (essay'.final[1].content.by = "outline") =>
                (essay'.final[1].content.of = essay'.outline)
          /\ essay'.validation # None
          /\ current_step' = "writing_essay_completed"
          /\ errors' = errors
          /\ ~hist'.failed
      ]_vars

C29_Witness ==
    /\ hist.step = "writing_essay" /\ hist.dispatches >= 2
    /\ current_step = "writing_essay_completed"
    /\ documents # << >>
    /\ essay.outline = "template"
    /\ essay.final # Nothing
    /\ essay.final[1].content = [ by |-> "outline", of |-> "template" ]
    /\ errors = << >>

(* C33: every dispatch adds at most one entry to errors; the loop goes on  *)
(* only with at most 5 errors, the budget being tested after every         *)
(* dispatch that does not end the run; the state run_research_workflow     *)
(* returns has at most 6 errors.                                           *)
C33_ErrorsBounded ==
    [][ /\ Dispatched => (Len(errors') <= Len(errors) + 1)
        /\ (pc' = "loop") => (Len(errors') <= ErrorBudget)
        /\ (result' = "state") => (Len(errors') <= ErrorBudget + 1)
      ]_vars

C33_Witness ==
    /\ pc = "done" /\ result = "state" /\ hist.stop = "decision"
    /\ hist.step = "completed"
    /\ Len(errors) = ErrorBudget + 1

(* C36: the dispatch of web_searching with ENABLE_WEB_SEARCH off runs no   *)
(* web search: current_step becomes "web_search_completed", the value the  *)
(* web agent stores when it completes, and documents, search_results,      *)
(* errors, analysis_results and the essay fields stay as they were.        *)
C36_DisabledSearchFrame ==
    [][ (Dispatched /\ hist'.step = "web_searching" /\ ~cfg.ENABLE_WEB_SEARCH) =>
          /\ current_step' = "web_search_completed"
          /\ UNCHANGED <<documents, search_results, errors, analysis_results, essay>>
          /\ docs_made' = docs_made
          /\ ~hist'.failed
      ]_vars

C36_Witness ==
    /\ hist.step = "web_searching" /\ ~cfg.ENABLE_WEB_SEARCH
    /\ current_step = "web_search_completed"
    /\ documents # << >> /\ errors # << >> /\ search_results = << >>

(* C38: final_essay is set only together with essay_outline and only by a  *)
(* synthesis step that ran on a non-empty document list, and its sources   *)
(* are the documents the state held at that step; a synthesis step on an   *)
(* empty list ends at "writing_essay_completed", assigns none of           *)
(* final_essay, essay_outline, essay_validation_result and appends no      *)
(* error.                                                                  *)
C38_EssayOnlyFromDocuments ==
    [][ /\ (essay'.final # Nothing) =>
              /\ essay'.outline # None
              /\ essay'.final[1].sources # << >>
        /\ (essay' # essay /\ result' # "error_state") =>
              /\ Dispatched /\ hist'.step = "writing_essay"
              /\ documents # << >>
              /\ essay'.final # Nothing
              /\ essay'.final[1].outline = essay'.outline
              /\ essay'.final[1].sources = documents
        /\ (Dispatched /\ hist'.step = "writing_essay" /\ documents = << >>) =>
              /\ current_step' = "writing_essay_completed"
              /\ UNCHANGED <<essay, errors, documents>>
      ]_vars

C38_Witness ==
    /\ hist.step = "writing_essay" /\ current_step = "writing_essay_completed"
    /\ documents = << >> /\ essay = NoEssay /\ errors = << >>
    /\ hist.dispatches >= 2

----------------------------------------------------------------------------
(* The construction of a ResearchTask on its own: directly, or through     *)
(* create_research_task, from a topic, a number of sources and an essay    *)
(* length, valid or not.                                                   *)

SourceCounts == -3..3
EssayLengths == { "short", "medium", "long", "huge" }
Topics == { "", "topic" }

InitTask ==
    /\ pc = "construct"
    /\ ApiIdle
    /\ iteration = 0
    /\ pdf_paths = None
    /\ decision = NoDecision
    /\ current_step = InitialState.current_step
    /\ documents = << >>
    /\ search_results = << >>
    /\ errors = << >>
    /\ analysis_results = DefaultAnalysisResults
    /\ essay = NoEssay
    /\ cfg \in { c \in Config : c.api_key /\ c.store_ok /\ c.ENABLE_WEB_SEARCH }
    /\ task = None
    /\ oracle \in [ call : {"ResearchTask", "create_research_task"},
                    topic : Topics, sources : SourceCounts,
                    essay_length : EssayLengths ]
    /\ docs_made = 0
    /\ result = None
    /\ hist = [ decides |-> 0, dispatches |-> 0, step |-> None, paths |-> None,
                cont |-> FALSE, failed |-> FALSE, stop |-> None ]

ConstructTask ==
    /\ pc = "construct"
    /\ UNCHANGED api_vars
    /\ task' = IF oracle.call = "ResearchTask"
               THEN ResearchTask([ topic |-> oracle.topic,
                                   max_relevant_sources |-> oracle.sources,
                                   essay_length |-> oracle.essay_length ])
               ELSE create_research_task(oracle.topic, oracle.sources,
                                         oracle.essay_length)
    /\ result' = "task"
    /\ pc' = "constructed"
    /\ UNCHANGED <<iteration, pdf_paths, decision, state_vars, cfg, oracle,
                   docs_made, hist>>

NextTask == ConstructTask

SpecTask == InitTask /\ [][NextTask]_vars

(* C16: no ResearchTask comes out of a construction that was given a       *)
(* non-positive number of sources: such a construction raises.             *)
C16_InvalidTaskRaises ==
    (pc = "constructed" /\ oracle.sources <= 0) =>
        (result = "raised" /\ task = None)

----------------------------------------------------------------------------
(* filter_documents_by_relevance and rank_documents_by_quality on their    *)
(* own: a list of up to MaxBatch documents (ids 1..n in input order), each *)
(* with the answer the scoring service gives for it, and for the filter    *)
(* the threshold of the caller. The filter's two results are kept in       *)
(* documents (the kept list) and analysis_results.relevance_assessments;   *)
(* the ranking's result is kept in documents, and the assessments it       *)
(* sorted by (its local document_qualities) in result.                     *)

Thresholds == {5, 6, 9}

FilterAnswers ==
    { [ kind |-> "object", relevance_score |-> x, confidence |-> 9 ] : x \in {5, 6, 8, 9} }
    \cup { [ kind |-> k, relevance_score |-> 0, confidence |-> 0 ] :
             k \in {"malformed", "error", "empty_object"} }

RankAnswers ==
    { [ kind |-> "object", credibility_score |-> 9, information_quality |-> 8,
        currency_score |-> 7, overall_quality |-> "high",
        recommendation |-> "include" ],
      [ kind |-> "object", credibility_score |-> 8, information_quality |-> 8,
        currency_score |-> 8, overall_quality |-> "high",
        recommendation |-> "include" ],
      [ kind |-> "object", credibility_score |-> 9, information_quality |-> 9,
        currency_score |-> 9, overall_quality |-> "high",
        recommendation |-> "include" ],
      [ kind |-> "object", credibility_score |-> 4, information_quality |-> 5,
        currency_score |-> 6, overall_quality |-> "low",
        recommendation |-> "exclude" ] }
    \cup { [ kind |-> k, credibility_score |-> 0, information_quality |-> 0,
             currency_score |-> 0, overall_quality |-> None,
             recommendation |-> None ] :
             k \in {"malformed", "error", "empty_object"} }

InitAnalyst ==
    /\ pc = "analyst"
    /\ ApiIdle
    /\ iteration = 0
    /\ pdf_paths = None
    /\ decision = NoDecision
    /\ current_step = "analyzing_data"
    /\ \E n \in 0..MaxBatch :
          /\ documents = NewDocs(n, "pdf", 0)
          /\ oracle \in [ fn : {"filter"}, answers : [1..n -> FilterAnswers],
                          threshold : Thresholds ]
                        \cup [ fn : {"rank"}, answers : [1..n -> RankAnswers],
                               threshold : {0} ]
    /\ search_results = << >>
    /\ errors = << >>
    /\ analysis_results = DefaultAnalysisResults
    /\ essay = NoEssay
    /\ cfg \in { c \in Config : c.api_key /\ c.store_ok /\ c.ENABLE_WEB_SEARCH }
    /\ task = Task
    /\ docs_made = Len(documents)
    /\ result = None
    /\ hist = [ decides |-> 0, dispatches |-> 0, step |-> None, paths |-> None,
                cont |-> FALSE, failed |-> FALSE, stop |-> None ]

FilterCall ==
    /\ pc = "analyst"
    /\ UNCHANGED api_vars
    /\ oracle.fn = "filter"
    /\ LET f == filter_documents_by_relevance(documents, oracle.answers,
                                              oracle.threshold)
       IN /\ documents' = f.relevant_documents
          /\ analysis_results' =
                [analysis_results EXCEPT !.relevance_assessments = f.assessments]
    /\ pc' = "filtered"
    /\ UNCHANGED <<iteration, pdf_paths, decision, current_step, search_results,
                   errors, essay, cfg, task, oracle, docs_made, result, hist>>

RankCall ==
    /\ pc = "analyst"
    /\ UNCHANGED api_vars
    /\ oracle.fn = "rank"
    /\ documents' = rank_documents_by_quality(documents, oracle.answers)
    /\ result' = document_qualities(documents, oracle.answers)
    /\ pc' = "ranked"
    /\ UNCHANGED <<iteration, pdf_paths, decision, current_step, search_results,
                   errors, analysis_results, essay, cfg, task, oracle, docs_made,
                   hist>>

NextAnalyst ==
    \/ FilterCall
    \/ RankCall

SpecAnalyst == InitAnalyst /\ [][NextAnalyst]_vars

(* C17: the filter keeps documents[i] exactly when the relevance_score of  *)
(* its assessment is >= the threshold the caller gave, and the kept list   *)
(* has the kept documents in the order of the input.                       *)
C17_FilterByThreshold ==
    [][ (pc' = "filtered") =>
          LET a == analysis_results'.relevance_assessments
              kept == documents'
          IN /\ \A i \in 1..Len(documents) :
                   /\ a[i].document_id = documents[i].id
                   /\ (a[i].relevance_score >= oracle.threshold)
                        <=> (\E j \in 1..Len(kept) : kept[j] = documents[i])
             /\ \A j \in 1..Len(kept) : \E i \in 1..Len(documents) : kept[j] = documents[i]
             /\ \A j, k \in 1..Len(kept) : (j < k) => (kept[j].id < kept[k].id)
      ]_vars

C17_Witness ==
    /\ pc = "filtered" /\ oracle.threshold = 6
    /\ Len(analysis_results.relevance_assessments) = 3
    /\ analysis_results.relevance_assessments[1].relevance_score = 8
    /\ analysis_results.relevance_assessments[2].relevance_score = 5
    /\ analysis_results.relevance_assessments[3].relevance_score = 9
    /\ Ids(documents) = <<1, 3>>

(* C18: the assessment list the filter returns has one entry per input     *)
(* document, in input order, whether the document was kept, rejected or    *)
(* could not be scored; and a document behind one whose scoring failed     *)
(* still gets the score the service gave it.                               *)
C18_FullAssessmentList ==
    [][ (pc' = "filtered") =>
          LET a == analysis_results'.relevance_assessments
          IN /\ Len(a) = Len(documents)
             /\ \A i \in 1..Len(documents) :
                   /\ a[i].document_id = documents[i].id
                   /\ (oracle.answers[i].kind = "object") =>
                         (a[i].relevance_score = oracle.answers[i].relevance_score)
      ]_vars

C18_Witness ==
    /\ pc = "filtered" /\ oracle.threshold = 6
    /\ Len(oracle.answers) = 3
    /\ oracle.answers[1].kind = "error"
    /\ oracle.answers[2].kind = "object" /\ oracle.answers[2].relevance_score = 9
    /\ oracle.answers[3].kind = "object" /\ oracle.answers[3].relevance_score = 5
    /\ Len(analysis_results.relevance_assessments) = 3
    /\ Ids(documents) = <<2>>

(* C19: the assessment of a document whose answer could not be parsed has  *)
(* score 0.5 and confidence 0.0; that of a document whose scoring raised   *)
(* has score 0.0 and confidence 0.0.                                       *)
C19_FailureDefaults ==
    (pc = "filtered") =>
        \A i \in 1..Len(analysis_results.relevance_assessments) :
            LET a == analysis_results.relevance_assessments[i] IN
            /\ (oracle.answers[i].kind = "malformed") =>
                  (a.relevance_score = 5 /\ a.confidence = 0)
            /\ (oracle.answers[i].kind = "error") =>
                  (a.relevance_score = 0 /\ a.confidence = 0)

(* Three times the mean of the three scores an answer carries; an answer   *)
(* that cannot be parsed counts 0.5 on each axis. Document ids are the     *)
(* positions in the input.                                                 *)
AnswerSum(ans) ==
    IF ans.kind = "object"
    THEN ans.credibility_score + ans.information_quality + ans.currency_score
    ELSE 15

(* C20: the ranking returns the same documents, ordered by the mean of     *)
(* credibility, information quality and currency, highest first, and two   *)
(* documents of equal mean stay in the order of the input.                 *)
C20_RankStableDescending ==
    [][ (pc' = "ranked") =>
          /\ Len(documents') = Len(documents)
          /\ \A i \in 1..Len(documents) :
                \E j \in 1..Len(documents') : documents'[j] = documents[i]
          /\ \A j, k \in 1..Len(documents') :
                (j < k) =>
                   LET sj == AnswerSum(oracle.answers[documents'[j].id])
                       sk == AnswerSum(oracle.answers[documents'[k].id])
                   IN /\ sj >= sk
                      /\ (sj = sk) => (documents'[j].id < documents'[k].id)
      ]_vars

C20_Witness ==
    /\ pc = "ranked" /\ Len(documents) = 3
    /\ AnswerSum(oracle.answers[1]) = 24 /\ oracle.answers[1].credibility_score = 9
    /\ AnswerSum(oracle.answers[2]) = 27
    /\ AnswerSum(oracle.answers[3]) = 24 /\ oracle.answers[3].credibility_score = 8
    /\ Ids(documents) = <<2, 1, 3>>

(* C21: a document whose quality scoring failed (the service raised, or    *)
(* its answer could not be parsed) is assessed 0.5 / 0.5 / 0.5, "medium",  *)
(* "include", and the ranking never loses or adds a document: its output   *)
(* has every input document exactly once.                                  *)
C21_QualityFailureNeutral ==
    [][ (pc' = "ranked") =>
          /\ Len(result') = Len(documents)
          /\ \A i \in 1..Len(documents) :
                /\ result'[i].document_id = documents[i].id
                /\ (oracle.answers[i].kind \in {"error", "malformed"}) =>
                      /\ result'[i].credibility_score = 5
                      /\ result'[i].information_quality = 5
                      /\ result'[i].currency_score = 5
                      /\ result'[i].overall_quality = "medium"
                      /\ result'[i].recommendation = "include"
          /\ Len(documents') = Len(documents)
          /\ \A i \in 1..Len(documents) :
                Cardinality({ j \in 1..Len(documents') : documents'[j] = documents[i] }) = 1
      ]_vars

C21_Witness ==
    /\ pc = "ranked" /\ Len(documents) = 3
    /\ oracle.answers[1].kind = "error"
    /\ oracle.answers[2].kind = "object" /\ oracle.answers[2].recommendation = "exclude"
    /\ oracle.answers[3].kind = "malformed"
    /\ result[1].recommendation = "include" /\ result[3].overall_quality = "medium"
    /\ result[2].recommendation = "exclude"
    /\ Len(documents) = 3 /\ documents[1].id = 1 /\ documents[3].id = 3

----------------------------------------------------------------------------
(* AnalystAgent.run and _generate_data_summary on their own.               *)
(* run is called on a state of up to MaxBatch documents of either source  *)
(* type, up to MaxRuns times in a row on the state it left (iteration      *)
(* counts the calls), with                                                 *)
(* a task of a small, of a large and of a negative max_relevant_sources    *)
(* (ResearchTask accepts any int); oracle keeps the answers the scoring    *)
(* service gave in the last call. _generate_data_summary is called on up   *)
(* to MaxCount documents of either source type.                            *)

MaxRuns == 2
MaxCount == 11

SourceLimits == {-1, 1, 2, DefaultMaxRelevantSources}

AnalysisRelAnswers ==
    { [ kind |-> "object", relevance_score |-> x, confidence |-> 9 ] : x \in {5, 6} }

AnalysisQualAnswers ==
    { [ kind |-> "object", credibility_score |-> 9, information_quality |-> 8,
        currency_score |-> 7, overall_quality |-> "high",
        recommendation |-> "include" ],
      [ kind |-> "object", credibility_score |-> 9, information_quality |-> 9,
        currency_score |-> 9, overall_quality |-> "high",
        recommendation |-> "include" ] }

MixedDocs(n, k) ==
    [ i \in 1..n |-> [ id |-> i, source_type |-> IF i <= k THEN "pdf" ELSE "web" ] ]

InitAnalysis ==
    /\ pc = "analysis"
    /\ ApiIdle
    /\ iteration = 0
    /\ pdf_paths = None
    /\ decision = NoDecision
    /\ current_step = "pdf_completed"
    /\ \/ /\ \E n \in 0..MaxBatch : \E k \in 0..n : documents = MixedDocs(n, k)
          /\ task \in [ max_relevant_sources : SourceLimits ]
          /\ oracle = [ fn |-> "run", fail |-> "none", rel |-> << >>, qual |-> << >> ]
       \/ /\ \E n \in 0..MaxCount : \E k \in 0..n : documents = MixedDocs(n, k)
          /\ task = Task
          /\ oracle = [ fn |-> "summary", fail |-> "none", rel |-> << >>, qual |-> << >> ]
    /\ search_results = << >>
    /\ errors = << >>
    /\ analysis_results = DefaultAnalysisResults
    /\ essay = NoEssay
    /\ cfg \in { c \in Config : c.api_key /\ c.store_ok /\ c.ENABLE_WEB_SEARCH }
    /\ docs_made = Len(documents)
    /\ result = None
    /\ hist = [ decides |-> 0, dispatches |-> 0, step |-> None, paths |-> None,
                cont |-> FALSE, failed |-> FALSE, stop |-> None ]

AnalysisOutcomes(docs) ==
    IF docs = << >> THEN { NoOutcome }
    ELSE { [NoOutcome EXCEPT !.fail = "raise"] }
         \cup { [NoOutcome EXCEPT !.rel = rel, !.qual = qual] :
                  rel \in [1..Len(docs) -> AnalysisRelAnswers],
                  qual \in [1..Len(docs) -> AnalysisQualAnswers] }

AnalystRunCall ==
    /\ pc = "analysis"
    /\ UNCHANGED api_vars
    /\ oracle.fn = "run"
    /\ iteration < MaxRuns
    /\ \E out \in AnalysisOutcomes(documents) :
          /\ SetState(AnalystAgent_run(AgentState, task, out))
          /\ oracle' = [oracle EXCEPT !.fail = out.fail, !.rel = out.rel,
                                      !.qual = out.qual]
    /\ iteration' = iteration + 1
    /\ UNCHANGED <<pc, pdf_paths, decision, cfg, task, docs_made, result, hist>>

SummaryCall ==
    /\ pc = "analysis"
    /\ UNCHANGED api_vars
    /\ oracle.fn = "summary"
    /\ analysis_results' =
          [analysis_results EXCEPT !.data_summary = Some(_generate_data_summary(documents))]
    /\ pc' = "summarized"
    /\ UNCHANGED <<iteration, pdf_paths, decision, current_step, documents,
                   search_results, errors, essay, cfg, task, oracle, docs_made,
                   result, hist>>

NextAnalysis ==
    \/ AnalystRunCall
    \/ SummaryCall

SpecAnalysis == InitAnalysis /\ [][NextAnalysis]_vars

(* A call of AnalystAgent.run went through its try block on a non-empty    *)
(* list: the step to the primed state is such a call.                      *)
Analysed ==
    /\ iteration' = iteration + 1
    /\ oracle'.fn = "run" /\ oracle'.fail = "none"
    /\ documents # << >>

(* The place of document d in the list docs *)
Pos(docs, d) == CHOOSE i \in 1..Len(docs) : docs[i] = d

C23_CoverageBuckets ==
    (analysis_results.data_summary # Nothing) =>
        LET summary == analysis_results.data_summary[1]
            n == summary.total_documents
        IN /\ (oracle.fn = "summary" \/ oracle.fail = "none") => (n = Len(documents))
           /\ (n = 0) => (summary.data_coverage = "none")
           /\ (0 < n /\ n < 5) => (summary.data_coverage = "limited")
           /\ (5 <= n /\ n < 10) => (summary.data_coverage = "moderate")
           /\ (n >= 10) => (summary.data_coverage = "comprehensive")
           /\ (n = 4) => (summary.data_coverage = "limited")
           /\ (n \in {5, 7, 9}) => (summary.data_coverage = "moderate")
           /\ (n = 10) => (summary.data_coverage = "comprehensive")

C23_Witness ==
    /\ pc = "summarized" /\ Len(documents) = 5
    /\ analysis_results.data_summary # Nothing
    /\ analysis_results.data_summary[1].data_coverage = "moderate"
    /\ analysis_results.data_summary[1].source_distribution = [ k \in {"pdf", "web"} |->
                                                                  IF k = "pdf" THEN 2 ELSE 3 ]

(* The sum of the counts of a histogram (a function from kinds to counts) *)
RECURSIVE SumCounts(_, _)
SumCounts(f, kinds) ==
    IF kinds = {} THEN 0
    ELSE LET k == CHOOSE x \in kinds : TRUE
         IN f[k] + SumCounts(f, kinds \ {k})

(* C39: after an analysis step that went through on a non-empty list, the  *)
(* stored results agree with the state: filtered_documents is the ids of   *)
(* documents in their order, data_summary.total_documents is               *)
(* len(documents), the counts of source_distribution add up to it,         *)
(* total_assessed is the number of documents the step was given, and       *)
(* relevant_found is len(documents), at most total_assessed.               *)
C39_ResultsMatchState ==
    [][ Analysed =>
          LET ar == analysis_results'
              summary == ar.data_summary[1]
              metrics == ar.quality_metrics[1]
          IN /\ ar.filtered_documents = [ i \in 1..Len(documents') |-> documents'[i].id ]
             /\ ar.data_summary # Nothing /\ ar.quality_metrics # Nothing
             /\ summary.total_documents = Len(documents')
             /\ SumCounts(summary.source_distribution,
                          DOMAIN summary.source_distribution) = summary.total_documents
             /\ \A k \in DOMAIN summary.source_distribution :
                   summary.source_distribution[k] =
                      Cardinality({ i \in 1..Len(documents') :
                                        documents'[i].source_type = k })
             /\ metrics.total_assessed = Len(documents)
             /\ metrics.relevant_found = Len(documents')
             /\ metrics.relevant_found <= metrics.total_assessed
      ]_vars

C39_Witness ==
    /\ pc = "analysis" /\ iteration = 1 /\ oracle.fn = "run" /\ oracle.fail = "none"
    /\ Len(oracle.rel) = 3 /\ Len(documents) = 2
    /\ analysis_results.quality_metrics = Some([ total_assessed |-> 3, relevant_found |-> 2 ])
    /\ analysis_results.data_summary # Nothing
    /\ analysis_results.data_summary[1].source_distribution =
          [ k \in {"pdf", "web"} |-> 1 ]
    /\ analysis_results.filtered_documents = Ids(documents)

(* C24: after every analysis step that raised nothing, analysis_results    *)
(* describes that step alone: one assessment per document the step was     *)
(* given, and the ids, the counters and the summary of the documents it    *)
(* ended with; for a step that was given no document, nothing of an        *)
(* earlier step is left in it.                                             *)
C24_RebuiltEachRun ==
    [][ (iteration' = iteration + 1 /\ oracle'.fn = "run" /\ oracle'.fail = "none") =>
          \/ /\ documents = << >>
             /\ analysis_results' = DefaultAnalysisResults
          \/ /\ Len(analysis_results'.relevance_assessments) = Len(documents)
             /\ \A i \in 1..Len(documents) :
                   analysis_results'.relevance_assessments[i].document_id = documents[i].id
             /\ analysis_results'.filtered_documents = Ids(documents')
             /\ analysis_results'.quality_metrics =
                   Some([ total_assessed |-> Len(documents),
                          relevant_found |-> Len(documents') ])
             /\ analysis_results'.data_summary # Nothing
             /\ analysis_results'.data_summary[1].total_documents = Len(documents')
      ]_vars

----------------------------------------------------------------------------
(* Text. A str is kept as the tuple of its characters, so that lower(),    *)
(* split(), `in`, endswith() and Path.suffix are computed as Python        *)
(* computes them.                                                          *)

Uppercase == <<"A", "B", "C", "D", "E", "F", "G", "H", "I", "J", "K", "L", "M", "N", "O", "P", "Q", "R", "S", "T", "U", "V", "W", "X", "Y", "Z">>
Lowercase == <<"a", "b", "c", "d", "e", "f", "g", "h", "i", "j", "k", "l", "m", "n", "o", "p", "q", "r", "s", "t", "u", "v", "w", "x", "y", "z">>

lower_char(c) ==
    IF \E i \in 1..Len(Uppercase) : Uppercase[i] = c
    THEN Lowercase[CHOOSE i \in 1..Len(Uppercase) : Uppercase[i] = c]
    ELSE c

(* str.lower() *)
lower(s) == [ i \in 1..Len(s) |-> lower_char(s[i]) ]

(* sub in s *)
Contains(sub, s) ==
    \E i \in 0..(Len(s) - Len(sub)) : SubSeq(s, i + 1, i + Len(sub)) = sub

(* s.endswith(suf) *)
endswith(s, suf) ==
    Len(suf) <= Len(s) /\ SubSeq(s, Len(s) - Len(suf) + 1, Len(s)) = suf

(* str.split(): the maximal runs of characters that are no whitespace *)
RECURSIVE split(_)
split(s) ==
    IF s = << >> THEN << >>
    ELSE IF Head(s) = " " THEN split(Tail(s))
    ELSE LET spaces == { i \in 1..Len(s) : s[i] = " " }
             n == IF spaces = {} THEN Len(s) + 1
                  ELSE CHOOSE i \in spaces : \A j \in spaces : i <= j
         IN <<SubSeq(s, 1, n - 1)>> \o split(SubSeq(s, n, Len(s)))

(* pathlib: Path(p).suffix. The name is what follows the last "/"; the     *)
(* suffix starts at the last "." of the name, unless that "." is the       *)
(* first or the last character of the name, and then there is no suffix.   *)
suffix(p) ==
    LET slashes == { i \in 1..Len(p) : p[i] = "/" }
        start == IF slashes = {} THEN 1
                 ELSE 1 + CHOOSE i \in slashes : \A j \in slashes : j <= i
        name == SubSeq(p, start, Len(p))
        dots == { i \in 1..Len(name) : name[i] = "." }
        last == IF dots = {} THEN 0 ELSE CHOOSE i \in dots : \A j \in dots : j <= i
    IN IF 1 < last /\ last < Len(name) THEN SubSeq(name, last, Len(name)) ELSE << >>

SHORT == <<"s", "h", "o", "r", "t">>
LONG == <<"l", "o", "n", "g">>
AUTO == <<"a", "u", "t", "o">>
TXT == <<"t", "x", "t">>
PDF == <<"p", "d", "f">>
DOCX == <<"d", "o", "c", "x">>

----------------------------------------------------------------------------
(* models.py: EssayValidationResult, with the defaults of its fields, and  *)
(* its property overall_valid                                              *)

EssayValidationResult(word_count) ==
    [ meets_length |-> TRUE, covers_topic |-> TRUE, has_sources |-> TRUE,
      issues |-> << >>, word_count |-> word_count,
      expected_length_range |-> None, topic_coverage_score |-> None ]

overall_valid_ignores_issues(self) ==
    self.meets_length /\ self.covers_topic /\ self.has_sources

overall_valid(self) ==
    self.meets_length /\ self.covers_topic /\ self.has_sources /\ self.issues = << >>

(* essay_writer_agent.py: _validate_essay_requirements(essay,              *)
(* requirements). topic_coverage_score is kept as the pair <<words found,  *)
(* words>>; with no word it is 0.0, kept as <<0, 0>>. A score below 0.5    *)
(* is 2 * found < words, or no word at all.                                *)
LengthCheck_long_first(res, ess, requirements) ==
    IF Contains(LONG, lower(requirements)) THEN
        [res EXCEPT
            !.expected_length_range = <<2000, "inf">>,
            !.meets_length = IF ess.word_count < 2000 THEN FALSE ELSE @,
            !.issues = IF ess.word_count < 2000
                       THEN Append(@, "Essay is shorter than requested for long format")
                       ELSE @]
    ELSE IF Contains(SHORT, lower(requirements)) THEN
        [res EXCEPT
            !.expected_length_range = <<0, 1000>>,
            !.meets_length = IF ess.word_count > 1000 THEN FALSE ELSE @,
            !.issues = IF ess.word_count > 1000
                       THEN Append(@, "Essay is longer than requested for short format")
                       ELSE @]
    ELSE
        [res EXCEPT
            !.expected_length_range = <<1000, 2000>>,
            !.meets_length = IF ess.word_count < 1000 \/ ess.word_count > 2000
                             THEN FALSE ELSE @,
            !.issues = IF ess.word_count < 1000 \/ ess.word_count > 2000
                       THEN Append(@, "Essay length does not meet medium format requirements")
                       ELSE @]

(* lines 291-308 *)
LengthCheck(res, ess, requirements) ==
    IF Contains(SHORT, lower(requirements)) THEN
        [res EXCEPT
            !.expected_length_range = <<0, 1000>>,
            !.meets_length = IF ess.word_count > 1000 THEN FALSE ELSE @,
            !.issues = IF ess.word_count > 1000
                       THEN Append(@, "Essay is longer than requested for short format")
                       ELSE @]
    ELSE IF Contains(LONG, lower(requirements)) THEN
        [res EXCEPT
            !.expected_length_range = <<2000, "inf">>,
            !.meets_length = IF ess.word_count < 2000 THEN FALSE ELSE @,
            !.issues = IF ess.word_count < 2000
                       THEN Append(@, "Essay is shorter than requested for long format")
                       ELSE @]
    ELSE
        [res EXCEPT
            !.expected_length_range = <<1000, 2000>>,
            !.meets_length = IF ess.word_count < 1000 \/ ess.word_count > 2000
                             THEN FALSE ELSE @,
            !.issues = IF ess.word_count < 1000 \/ ess.word_count > 2000
                       THEN Append(@, "Essay length does not meet medium format requirements")
                       ELSE @]

(* lines 310-320 *)
CoverageCheck_half_fails(res, ess, requirements) ==
    LET words == split(requirements)
        topic_words == { i \in 1..Len(words) : Len(words[i]) > 3 }
        content_lower == lower(ess.content)
        topic_coverage ==
            Cardinality({ i \in topic_words : Contains(lower(words[i]), content_lower) })
        low == topic_words = {} \/ 2 * topic_coverage <= Cardinality(topic_words)
    IN [res EXCEPT
          !.topic_coverage_score = <<topic_coverage, Cardinality(topic_words)>>,
          !.covers_topic = IF low THEN FALSE ELSE @,
          !.issues = IF low
                     THEN Append(@, "Essay may not fully cover the research topic")
                     ELSE @]

CoverageCheck_silent(res, ess, requirements) ==
    LET words == split(requirements)
        topic_words == { i \in 1..Len(words) : Len(words[i]) > 3 }
        content_lower == lower(ess.content)
        topic_coverage ==
            Cardinality({ i \in topic_words : Contains(lower(words[i]), content_lower) })
        low == topic_words = {} \/ 2 * topic_coverage < Cardinality(topic_words)
    IN [res EXCEPT
          !.topic_coverage_score = <<topic_coverage, Cardinality(topic_words)>>,
          !.covers_topic = IF low THEN FALSE ELSE @]

CoverageCheck(res, ess, requirements) ==
    LET words == split(requirements)
        topic_words == { i \in 1..Len(words) : Len(words[i]) > 3 }
        content_lower == lower(ess.content)
        topic_coverage ==
            Cardinality({ i \in topic_words : Contains(lower(words[i]), content_lower) })
        low == topic_words = {} \/ 2 * topic_coverage < Cardinality(topic_words)
    IN [res EXCEPT
          !.topic_coverage_score = <<topic_coverage, Cardinality(topic_words)>>,
          !.covers_topic = IF low THEN FALSE ELSE @,
          !.issues = IF low
                     THEN Append(@, "Essay may not fully cover the research topic")
                     ELSE @]

_validate_essay_requirements(ess, requirements) ==
    CoverageCheck(LengthCheck(EssayValidationResult(ess.word_count), ess,
                              requirements),
                  ess, requirements)

----------------------------------------------------------------------------
(* file_utils.py: write_essay(essay, output_path, output_format). The      *)
(* writers (write_essay_txt, write_essay_pdf, write_essay_docx) return     *)
(* True, or False when the file cannot be written or the library is        *)
(* missing: writer_ok. The result names the writer that was called, the    *)
(* path it was given and the value write_essay returns.                    *)

write_essay_appends_always(output_path, output_format, writer_ok) ==
    LET ext == lower(suffix(output_path))
        fmt == IF output_format # AUTO THEN output_format
               ELSE IF ext = <<".">> \o PDF THEN PDF
               ELSE IF ext = <<".">> \o DOCX THEN DOCX
               ELSE TXT
        path == IF output_format = AUTO
                THEN output_path \o <<".">> \o TXT
                ELSE output_path
    IN IF lower(fmt) = TXT
       THEN [ writer |-> "write_essay_txt", path |-> path, returns |-> writer_ok ]
       ELSE IF lower(fmt) = PDF
       THEN [ writer |-> "write_essay_pdf", path |-> path, returns |-> writer_ok ]
       ELSE IF lower(fmt) = DOCX
       THEN [ writer |-> "write_essay_docx", path |-> path, returns |-> writer_ok ]
       ELSE [ writer |-> None, path |-> path, returns |-> FALSE ]

write_essay(output_path, output_format, writer_ok) ==
    LET ext == lower(suffix(output_path))
        known == ext \in { <<".">> \o TXT, <<".">> \o PDF, <<".">> \o DOCX }
        fmt == IF output_format # AUTO THEN output_format
               ELSE IF ext = <<".">> \o TXT THEN TXT
               ELSE IF ext = <<".">> \o PDF THEN PDF
               ELSE IF ext = <<".">> \o DOCX THEN DOCX
               ELSE TXT
        path == IF output_format = AUTO /\ ~known
                   /\ ~endswith(output_path, <<".">> \o TXT)
                THEN output_path \o <<".">> \o TXT
                ELSE output_path
    IN IF lower(fmt) = TXT
       THEN [ writer |-> "write_essay_txt", path |-> path, returns |-> writer_ok ]
       ELSE IF lower(fmt) = PDF
       THEN [ writer |-> "write_essay_pdf", path |-> path, returns |-> writer_ok ]
       ELSE IF lower(fmt) = DOCX
       THEN [ writer |-> "write_essay_docx", path |-> path, returns |-> writer_ok ]
       ELSE [ writer |-> None, path |-> path, returns |-> FALSE ]

----------------------------------------------------------------------------
(* _validate_essay_requirements, overall_valid and write_essay on their    *)
(* own. oracle holds the arguments of the call; the validation result is   *)
(* kept in essay.validation, what the other two return in result.          *)

RequirementTexts ==
    {
      <<"S", "h", "o", "r", "t", " ", "d", "e", "e", "p", " ", "n", "e", "t", "s">>,    \* "Short deep nets"
      <<"a", " ", "l", "o", "n", "g", " ", "o", "n", "e">>,    \* "a long one"
      <<"b", "e", "l", "o", "n", "g">>,    \* "belong"
      <<"L", "O", "N", "G", " ", "s", "h", "o", "r", "t">>,    \* "LONG short"
      <<"d", "e", "e", "p", " ", "n", "e", "t", "s">>,    \* "deep nets"
      << >>,    \* ""
      <<"a", "i", " ", "o", "n", " ", "g", "o">>,    \* "ai on go"
      <<"d", "e", "e", "p", " ", "d", "e", "e", "p", " ", "n", "e", "t", "s">>     \* "deep deep nets"
    }

ContentTexts ==
    {
      << >>,    \* ""
      <<"D", "e", "e", "p">>,    \* "Deep"
      <<"d", "e", "e", "p", " ", "n", "e", "t", "s">>,    \* "deep nets"
      <<"s", "h", "o", "r", "t", "e", "s", "t", " ", "b", "e", "l", "o", "n", "g", "s">>,    \* "shortest belongs"
      <<"n", "e", "t", "s">>     \* "nets"
    }

WordCounts == { 0, 999, 1000, 1001, 1200, 1999, 2000, 2001 }

PathTexts ==
    {
      <<"a", ".", "t", "x", "t">>,    \* "a.txt"
      <<"a", ".", "T", "X", "T">>,    \* "a.TXT"
      <<"a", ".", "p", "d", "f">>,    \* "a.pdf"
      <<"a", ".", "d", "o", "c", "x">>,    \* "a.docx"
      <<"a", ".", "m", "d">>,    \* "a.md"
      <<"a">>,    \* "a"
      <<".", "t", "x", "t">>,    \* ".txt"
      <<"d", ".", "x", "/", "a">>,    \* "d.x/a"
      <<"a", ".", "b", ".", "p", "d", "f">>     \* "a.b.pdf"
    }

FormatTexts ==
    {
      <<"a", "u", "t", "o">>,    \* "auto"
      <<"t", "x", "t">>,    \* "txt"
      <<"p", "d", "f">>,    \* "pdf"
      <<"d", "o", "c", "x">>,    \* "docx"
      <<"x", "y", "z">>,    \* "xyz"
      <<"T", "X", "T">>,    \* "TXT"
      << >>     \* ""
    }

InitEssay ==
    /\ pc = "essay_fn"
    /\ ApiIdle
    /\ iteration = 0
    /\ pdf_paths = None
    /\ decision = NoDecision
    /\ current_step = "writing_essay"
    /\ documents = << >>
    /\ search_results = << >>
    /\ errors = << >>
    /\ analysis_results = DefaultAnalysisResults
    /\ essay = NoEssay
    /\ cfg \in { c \in Config : c.api_key /\ c.store_ok /\ c.ENABLE_WEB_SEARCH }
    /\ task = Task
    /\ \/ oracle \in [ fn : {"validate"}, requirements : RequirementTexts,
                       content : ContentTexts, word_count : WordCounts,
                       sources : { << >>, NewDocs(1, "pdf", 0) } ]
       \/ oracle \in [ fn : {"overall_valid"}, meets_length : BOOLEAN,
                       covers_topic : BOOLEAN, has_sources : BOOLEAN,
                       issues : { << >>, <<"Essay may not fully cover the research topic">> } ]
       \/ oracle \in [ fn : {"write_essay"}, output_path : PathTexts,
                       output_format : FormatTexts, writer_ok : BOOLEAN ]
    /\ docs_made = 0
    /\ result = None
    /\ hist = [ decides |-> 0, dispatches |-> 0, step |-> None, paths |-> None,
                cont |-> FALSE, failed |-> FALSE, stop |-> None ]

ValidateCall ==
    /\ pc = "essay_fn"
    /\ UNCHANGED api_vars
    /\ oracle.fn = "validate"
    /\ essay' = [essay EXCEPT !.validation =
                    _validate_essay_requirements(
                        [ content |-> oracle.content, word_count |-> oracle.word_count,
                          sources |-> oracle.sources ],
                        oracle.requirements)]
    /\ pc' = "validated"
    /\ UNCHANGED <<iteration, pdf_paths, decision, current_step, documents,
                   search_results, errors, analysis_results, cfg, task, oracle,
                   docs_made, result, hist>>

OverallValidCall ==
    /\ pc = "essay_fn"
    /\ UNCHANGED api_vars
    /\ oracle.fn = "overall_valid"
    /\ result' = overall_valid(
                    [EssayValidationResult(0) EXCEPT
                        !.meets_length = oracle.meets_length,
                        !.covers_topic = oracle.covers_topic,
                        !.has_sources = oracle.has_sources,
                        !.issues = oracle.issues])
    /\ pc' = "valid_read"
    /\ UNCHANGED <<iteration, pdf_paths, decision, state_vars, cfg, task, oracle,
                   docs_made, hist>>

WriteEssayCall ==
    /\ pc = "essay_fn"
    /\ UNCHANGED api_vars
    /\ oracle.fn = "write_essay"
    /\ result' = write_essay(oracle.output_path, oracle.output_format, oracle.writer_ok)
    /\ pc' = "written"
    /\ UNCHANGED <<iteration, pdf_paths, decision, state_vars, cfg, task, oracle,
                   docs_made, hist>>

NextEssay ==
    \/ ValidateCall
    \/ OverallValidCall
    \/ WriteEssayCall

SpecEssay == InitEssay /\ [][NextEssay]_vars

(* The issues of the length check *)
LengthIssues ==
    { "Essay is longer than requested for short format",
      "Essay is shorter than requested for long format",
      "Essay length does not meet medium format requirements" }

CoverageIssue == "Essay may not fully cover the research topic"

CountIssues(issues, which) == Cardinality({ i \in 1..Len(issues) : issues[i] \in which })

(* C25: the length policy follows the lower-cased requirements: "short"    *)
(* in them gives the range [0, 1000], else "long" in them gives [2000,     *)
(* inf), else [1000, 2000]; meets_length is true exactly for a word count  *)
(* inside the range, bounds included, and exactly one length issue is      *)
(* recorded for one outside it (none inside): "short" with 1200 words is   *)
(* too long for the short format.                                          *)
C25_LengthPolicy ==
    (pc = "validated") =>
        LET v == essay.validation
            wc == oracle.word_count
            low == lower(oracle.requirements)
            policy == IF Contains(SHORT, low) THEN "short"
                      ELSE IF Contains(LONG, low) THEN "long" ELSE "medium"
            inside == CASE policy = "short" -> 0 <= wc /\ wc <= 1000
                        [] policy = "long" -> 2000 <= wc
                        [] OTHER -> 1000 <= wc /\ wc <= 2000
        IN /\ v.word_count = wc
           /\ v.expected_length_range =
                 CASE policy = "short" -> <<0, 1000>>
                   [] policy = "long" -> <<2000, "inf">>
                   [] OTHER -> <<1000, 2000>>
           /\ v.meets_length = inside
           /\ CountIssues(v.issues, LengthIssues) = IF inside THEN 0 ELSE 1
           /\ (oracle.requirements = <<"L", "O", "N", "G", " ", "s", "h", "o", "r", "t">>) =>
                 (v.expected_length_range = <<0, 1000>>)
           /\ (oracle.requirements = <<"b", "e", "l", "o", "n", "g">>) =>
                 (v.expected_length_range = <<2000, "inf">>)
           /\ (oracle.requirements = <<"S", "h", "o", "r", "t", " ", "d", "e", "e", "p", " ", "n", "e", "t", "s">> /\ wc = 1200) =>
                 /\ ~v.meets_length
                 /\ v.issues[1] = "Essay is longer than requested for short format"

C25_Witness ==
    /\ pc = "validated"
    /\ oracle.requirements = <<"S", "h", "o", "r", "t", " ", "d", "e", "e", "p", " ", "n", "e", "t", "s">>
    /\ oracle.word_count = 1200
    /\ ~essay.validation.meets_length
    /\ essay.validation.expected_length_range = <<0, 1000>>
    /\ "Essay is longer than requested for short format" =
           essay.validation.issues[1]

(* C26: of the words of the requirements that are longer than 3            *)
(* characters, lower-cased, the score counts those found as substrings of  *)
(* the lower-cased content; covers_topic is false, with the coverage       *)
(* issue recorded once, exactly when fewer than half of them are found,    *)
(* and stays true (no such issue) from one half on. Requirements without   *)
(* such a word are scored 0.0.                                             *)
C26_TopicCoverage ==
    (pc = "validated") =>
        LET v == essay.validation
            words == split(oracle.requirements)
            long == { i \in 1..Len(words) : Len(words[i]) >= 4 }
            found == { i \in long : Contains(lower(words[i]), lower(oracle.content)) }
            n == Cardinality(long)
            k == Cardinality(found)
        IN /\ v.topic_coverage_score = <<k, n>>
           /\ (n > 0) => (v.covers_topic <=> (2 * k >= n))
           /\ (n = 0) => ~v.covers_topic
           /\ CountIssues(v.issues, {CoverageIssue}) = IF v.covers_topic THEN 0 ELSE 1
           /\ (oracle.requirements = <<"d", "e", "e", "p", " ", "n", "e", "t", "s">> /\ Len(oracle.content) = 4) =>
                 (v.covers_topic /\ v.topic_coverage_score = <<1, 2>>)
           /\ (oracle.requirements = <<"d", "e", "e", "p", " ", "d", "e", "e", "p", " ", "n", "e", "t", "s">> /\ oracle.content = <<"n", "e", "t", "s">>) =>
                 (~v.covers_topic /\ v.topic_coverage_score = <<1, 3>>)
           /\ (oracle.requirements = <<"a", " ", "l", "o", "n", "g", " ", "o", "n", "e">> /\ oracle.content = <<"s", "h", "o", "r", "t", "e", "s", "t", " ", "b", "e", "l", "o", "n", "g", "s">>) =>
                 (v.covers_topic /\ v.topic_coverage_score = <<1, 1>>)

C26_Witness ==
    /\ pc = "validated"
    /\ oracle.requirements = <<"d", "e", "e", "p", " ", "n", "e", "t", "s">>
    /\ oracle.content = <<"D", "e", "e", "p">>
    /\ essay.validation.topic_coverage_score = <<1, 2>>
    /\ essay.validation.covers_topic
    /\ oracle.word_count = 1000 /\ essay.validation.issues = << >>

(* C27: has_sources of the validation result is true exactly when the      *)
(* essay has at least one source.                                          *)
C27_HasSourcesFromList ==
    (pc = "validated") =>
        (essay.validation.has_sources <=> (Len(oracle.sources) > 0))

(* C28: overall_valid is true exactly when meets_length, covers_topic and  *)
(* has_sources are true and issues is empty; it is computed when read and  *)
(* is no field of the result.                                              *)
C28_OverallValidDerived ==
    /\ (pc = "valid_read") =>
          (result <=> /\ oracle.meets_length /\ oracle.covers_topic
                      /\ oracle.has_sources /\ Len(oracle.issues) = 0)
    /\ (pc = "validated") =>
          /\ "overall_valid" \notin DOMAIN essay.validation
          /\ overall_valid(essay.validation) \in BOOLEAN

C28_Witness ==
    /\ pc = "valid_read"
    /\ oracle.meets_length /\ oracle.covers_topic /\ oracle.has_sources
    /\ oracle.issues # << >>
    /\ result = FALSE

(* C37: in every result of _validate_essay_requirements a false            *)
(* meets_length or covers_topic comes with a non-empty issue list, the     *)
(* list holds exactly one entry for each of the two flags that is false    *)
(* and no other, so overall_valid is true exactly when the list is empty;  *)
(* and for requirements without a word of more than 3 characters the       *)
(* coverage score is 0.0 (no topic word, none found) and covers_topic is   *)
(* false.                                                                  *)
C37_FlagsBackedByIssues ==
    (pc = "validated") =>
        LET v == essay.validation
            words == split(oracle.requirements)
        IN /\ (~v.meets_length \/ ~v.covers_topic) => (v.issues # << >>)
           /\ CountIssues(v.issues, LengthIssues) = (IF v.meets_length THEN 0 ELSE 1)
           /\ CountIssues(v.issues, {CoverageIssue}) = (IF v.covers_topic THEN 0 ELSE 1)
           /\ Len(v.issues) = (IF v.meets_length THEN 0 ELSE 1)
                              + (IF v.covers_topic THEN 0 ELSE 1)
           /\ overall_valid(v) <=> (v.issues = << >>)
           /\ (\A i \in 1..Len(words) : Len(words[i]) <= 3) =>
                 /\ v.topic_coverage_score = <<0, 0>>
                 /\ ~v.covers_topic

C37_Witness ==
    /\ pc = "validated"
    /\ oracle.requirements = <<"a", "i", " ", "o", "n", " ", "g", "o">>
    /\ oracle.word_count = 999
    /\ ~essay.validation.meets_length /\ ~essay.validation.covers_topic
    /\ Len(essay.validation.issues) = 2
    /\ ~overall_valid(essay.validation)

(* The writer a format name stands for *)
WriterOf(fmt) ==
    CASE fmt = TXT -> "write_essay_txt"
      [] fmt = PDF -> "write_essay_pdf"
      [] fmt = DOCX -> "write_essay_docx"
      [] OTHER -> None

----------------------------------------------------------------------------
(* run_research_workflow when the decision service never answers: every    *)
(* determine_next_step ends in _fallback_decision_logic (the call raises,  *)
(* lines 121-123, or its content is no JSON, lines 115-117). The handlers  *)
(* answer as in the full workflow. hist.trace is the list of the steps     *)
(* execute_step was called with, hist.failures the number of handler runs  *)
(* that ended in their except clause.                                      *)

DegradedResponses == { r \in LLMResponses : r.kind \in {"raise", "malformed"} }

InitDegraded ==
    /\ pc = "run"
    /\ ApiIdle
    /\ iteration = 0
    /\ pdf_paths \in {None, "paths"}
    /\ decision = NoDecision
    /\ current_step = InitialState.current_step
    /\ documents = InitialState.documents
    /\ search_results = InitialState.search_results
    /\ errors = InitialState.errors
    /\ analysis_results = InitialState.analysis_results
    /\ essay = InitialState.essay
    /\ cfg \in Config
    /\ task = Task
    /\ oracle = None
    /\ docs_made = 0
    /\ result = None
    /\ hist = [ decides |-> 0, dispatches |-> 0, step |-> None, paths |-> None,
                cont |-> FALSE, failed |-> FALSE, stop |-> None,
                trace |-> << >>, failures |-> 0 ]

(* One turn of the while statement, lines 225-253 and 255-263: the loop    *)
(* test, and either the loop body on a fallback decision or the return     *)
(* after the cap.                                                          *)
DegradedPass ==
    /\ pc = "loop"
    /\ UNCHANGED api_vars
    /\ IF LoopGuard(iteration)
       THEN
         /\ iteration' = iteration + 1
         /\ \E resp \in DegradedResponses :
              LET d == determine_next_step(AgentState, cfg, resp)
                  step == Get(d, "next_step", "completed")
                  should_continue == Get(d, "should_continue", FALSE)
              IN
              \E out \in Outcomes(AgentState, step, pdf_paths, cfg, docs_made) :
                LET st == execute_step(AgentState, task, step, pdf_paths, cfg, out)
                    stop == IF StopByDecision(d) THEN "decision"
                            ELSE IF StopByErrors(st) THEN "errors" ELSE None
                IN
                /\ SetState(st)
                /\ docs_made' = docs_made + Len(out.new) + Len(out.found)
                /\ pdf_paths' = ClearedPaths(pdf_paths)
                /\ hist' = [hist EXCEPT !.decides = @ + 1, !.dispatches = @ + 1,
                                        !.step = step, !.paths = pdf_paths,
                                        !.cont = should_continue,
                                        !.failed = (out.fail # "none"),
                                        !.stop = stop,
                                        !.trace = Append(@, step),
                                        !.failures = @ + (IF out.fail # "none" THEN 1 ELSE 0)]
                /\ IF stop # None
                   THEN pc' = "done" /\ decision' = d /\ result' = "state"
                   ELSE pc' = "loop" /\ decision' = NoDecision /\ UNCHANGED result
       ELSE
         /\ pc' = "done"
         /\ result' = "state"
         /\ hist' = [hist EXCEPT !.stop = "max_iterations"]
         /\ UNCHANGED <<iteration, pdf_paths, decision, state_vars, docs_made>>
    /\ UNCHANGED <<cfg, task, oracle>>

NextDegraded ==
    \/ RunValidateFails
    \/ RunStart
    \/ DegradedPass

SpecDegraded == InitDegraded /\ [][NextDegraded]_vars

(* The steps a run is meant to go through, in order *)
Pipeline(flag) ==
    IF flag
    THEN <<"pdf_processing", "web_searching", "analyzing_data", "writing_essay", "completed">>
    ELSE <<"pdf_processing", "analyzing_data", "writing_essay", "completed">>

C31_EndsAfterAnalysis ==
    /\ pc = "done" /\ result = "state"
    /\ hist.failures = 0
    /\ documents # << >>
    /\ current_step = "analyzing_completed"
    /\ hist.trace = <<"pdf_processing", "web_searching", "analyzing_data", "completed">>
    /\ essay.final = Nothing

(* C32: on fallback decisions only, whatever handlers fail, no step is     *)
(* dispatched twice; after a failed handler the fallback answers           *)
(* completed; the run makes at most 5 iterations and returns because of a  *)
(* completed decision, never because of the iteration cap or the error     *)
(* budget.                                                                 *)
C32_DegradedRunEnds ==
    /\ \A i, j \in DOMAIN hist.trace : hist.trace[i] = hist.trace[j] => i = j
    /\ iteration <= 5
    /\ hist.stop \notin {"max_iterations", "errors"}
    /\ pc = "loop" => LoopGuard(iteration)
    /\ (pc = "loop" /\ hist.failed)
          => _fallback_decision_logic(AgentState, cfg) = Decision("completed", FALSE)
    /\ (pc = "done" /\ result = "state")
          => /\ hist.stop = "decision"
             /\ decision = Decision("completed", FALSE)
             /\ hist.trace[Len(hist.trace)] = "completed"

C32_Witness ==
    /\ pc = "done" /\ result = "state"
    /\ hist.failures = 1
    /\ hist.trace = <<"pdf_processing", "web_searching", "completed">>
    /\ current_step = "web_searching"
    /\ Len(errors) = 2


----------------------------------------------------------------------------
(* api.py: the HTTP interface. The endpoints are coroutines served by one  *)
(* event loop and hold no await, so each handler runs from its first line  *)
(* to its return without another one in between; a background task is     *)
(* run after the response of the request that added it, and               *)
(* run_research_workflow (170-189), a coroutine without an await around    *)
(* the blocking supervisor call, is one such uninterrupted piece too.      *)
(* Task ids are uuid4 values: every start_research gets one that was       *)
(* never used (the next number).                                           *)

MaxTasks == 2
MaxJobs == 2

TaskIds == 1..MaxTasks

Put(store, task_id, st) ==
    [ k \in DOMAIN store \cup {task_id} |-> IF k = task_id THEN st ELSE store[k] ]

Del(store, task_id) == [ k \in DOMAIN store \ {task_id} |-> store[k] ]

Answer(endpoint, task_id, status_code, detail) ==
    [ endpoint |-> endpoint, task_id |-> task_id, status_code |-> status_code,
      detail |-> detail ]

(* SupervisorAgent.run_research_workflow(topic, requirements, max_sources, *)
(* essay_length) as the background task calls it: without pdf_paths, on a  *)
(* state of its own. resp is how the decision service answers during the   *)
(* run, ok whether the services behind the handlers work; no document is   *)
(* found. The value is the state returned, or the fact that the call       *)
(* raised (a decision that is no dict), with the steps dispatched.         *)
StepOutcome(step, c, ok) ==
    IF ok THEN NoOutcome
    ELSE IF step = "pdf_processing" THEN [NoOutcome EXCEPT !.fail = "search"]
    ELSE IF step = "web_searching" /\ c.ENABLE_WEB_SEARCH
    THEN [NoOutcome EXCEPT !.fail = "raise"]
    ELSE NoOutcome

RECURSIVE WorkflowFrom(_, _, _, _, _, _)
WorkflowFrom(st, c, resp, ok, i, steps) ==
    IF ~LoopGuard(i)
    THEN [ raised |-> FALSE, state |-> st, steps |-> steps ]
    ELSE LET d == determine_next_step(st, c, resp) IN
         IF d.source = "non_object"
         THEN [ raised |-> TRUE, state |-> st, steps |-> steps ]
         ELSE LET step == Get(d, "next_step", "completed")
                  s2 == execute_step(st, Task, step, None, c, StepOutcome(step, c, ok))
              IN IF StopByDecision(d) \/ StopByErrors(s2)
                 THEN [ raised |-> FALSE, state |-> s2, steps |-> Append(steps, step) ]
                 ELSE WorkflowFrom(s2, c, resp, ok, i + 1, Append(steps, step))

SupervisorAgent_run_research_workflow(c, resp, ok) ==
    WorkflowFrom(InitialState, c, resp, ok, 0, << >>)

(* The decision service during one background run: down (every decision   *)
(* is the fallback's), answering a JSON value that is no object, or        *)
(* naming web_searching with should_continue true every time.              *)
ApiDecisions ==
    { r \in LLMResponses :
        \/ r.kind \in {"raise", "non_object"}
        \/ /\ r.kind = "object" /\ r.has = DecisionKeys
           /\ r.next_step = "web_searching" /\ r.should_continue }

(* start_research(request), lines 89-130 *)
start_research_restores_flag(store, c, task_id, request) ==
    [ config |-> [c EXCEPT !.ENABLE_WEB_SEARCH = request.enable_web_search],
      research_tasks |-> Put(store, task_id, InitialState),
      response |-> Answer("start_research", task_id, 200, "started") ]

start_research(store, c, task_id, request) ==
    [ config |-> IF ~request.enable_web_search
                 THEN [c EXCEPT !.ENABLE_WEB_SEARCH = FALSE]
                 ELSE c,
      research_tasks |-> Put(store, task_id, InitialState),
      response |-> Answer("start_research", task_id, 200, "started") ]

(* get_task_status(task_id), lines 133-151 *)
get_task_status(store, task_id) ==
    IF task_id \notin DOMAIN store
    THEN Answer("get_task_status", task_id, 404, "Task not found")
    ELSE Answer("get_task_status", task_id, 200, store[task_id].current_step)

(* run_research_task(task_id, background_tasks), lines 154-167 *)
run_research_task(store, tasks, task_id) ==
    IF task_id \notin DOMAIN store
    THEN [ background_tasks |-> tasks,
           response |-> Answer("run_research_task", task_id, 404, "Task not found") ]
    ELSE [ background_tasks |-> Append(tasks, task_id),
           response |-> Answer("run_research_task", task_id, 200, "running") ]

(* run_research_workflow(task_id), lines 170-189: the background task.     *)
(* research_tasks[task_id] raises KeyError for an id that is not stored,   *)
(* and so does anything the supervisor call raises (reading                *)
(* state.task.max_sources for its arguments included); the except clause   *)
(* appends to the stored state's errors if the id is stored.               *)
run_research_workflow_reinserts(store, task_id, c, resp, ok) ==
    LET w == SupervisorAgent_run_research_workflow(c, resp, ok) IN
    [ research_tasks |-> Put(store, task_id, w.state),
      raised |-> w.raised, steps |-> w.steps ]

run_research_workflow(store, task_id, c, resp, ok) ==
    IF task_id \notin DOMAIN store
    THEN [ research_tasks |-> store, raised |-> TRUE, steps |-> << >> ]
    ELSE LET w == SupervisorAgent_run_research_workflow(c, resp, ok) IN
         IF w.raised
         THEN [ research_tasks |->
                    [store EXCEPT ![task_id].errors = Append(@, "Workflow error")],
                raised |-> TRUE, steps |-> w.steps ]
         ELSE [ research_tasks |-> [store EXCEPT ![task_id] = w.state],
                raised |-> FALSE, steps |-> w.steps ]

(* get_essay(task_id), lines 192-223 *)
get_essay(store, task_id) ==
    IF task_id \notin DOMAIN store
    THEN Answer("get_essay", task_id, 404, "Task not found")
    ELSE IF store[task_id].essay.final = Nothing
    THEN Answer("get_essay", task_id, 404, "Essay not yet completed")
    ELSE Answer("get_essay", task_id, 200, "essay")

(* delete_task(task_id), lines 328-340 *)
delete_task(store, task_id) ==
    IF task_id \notin DOMAIN store
    THEN [ research_tasks |-> store,
           response |-> Answer("delete_task", task_id, 404, "Task not found") ]
    ELSE [ research_tasks |-> Del(store, task_id),
           response |-> Answer("delete_task", task_id, 200, "deleted") ]

NoRun == [ task_id |-> 0, kind |-> None, ok |-> FALSE, flag |-> FALSE,
           found |-> FALSE, raised |-> FALSE, steps |-> << >> ]

(* hist: created, the number of ids handed out; created_enabled, the ids   *)
(* whose request had enable_web_search true; disabled, whether a request   *)
(* with enable_web_search false was made; scheduled, the number of         *)
(* background tasks added; deleted, the ids delete_task removed; last_run, *)
(* the last background task that ran.                                      *)
InitApi ==
    /\ pc = "serving"
    /\ iteration = 0
    /\ pdf_paths = None
    /\ decision = NoDecision
    /\ current_step = InitialState.current_step
    /\ documents = InitialState.documents
    /\ search_results = InitialState.search_results
    /\ errors = InitialState.errors
    /\ analysis_results = InitialState.analysis_results
    /\ essay = InitialState.essay
    /\ cfg \in { c \in Config : c.api_key /\ c.store_ok }
    /\ task = Task
    /\ oracle = None
    /\ docs_made = 0
    /\ result = None
    /\ hist = [ created |-> 0, created_enabled |-> {}, disabled |-> FALSE,
                scheduled |-> 0, deleted |-> {}, last_run |-> NoRun ]
    /\ research_tasks = NoTasks
    /\ background_tasks = << >>
    /\ response = Answer(None, 0, 0, None)

ApiFrame == UNCHANGED <<pc, iteration, pdf_paths, decision, state_vars, task, oracle,
                         docs_made, result>>

StartResearch ==
    /\ pc = "serving"
    /\ hist.created < MaxTasks
    /\ \E enable \in BOOLEAN :
         LET task_id == hist.created + 1
             r == start_research(research_tasks, cfg, task_id,
                                 [ enable_web_search |-> enable ])
         IN /\ cfg' = r.config
            /\ research_tasks' = r.research_tasks
            /\ response' = r.response
            /\ hist' = [hist EXCEPT
                          !.created = task_id,
                          !.created_enabled = IF enable THEN @ \cup {task_id} ELSE @,
                          !.disabled = @ \/ ~enable]
    /\ UNCHANGED background_tasks
    /\ ApiFrame

GetTaskStatus ==
    /\ pc = "serving"
    /\ \E task_id \in TaskIds : response' = get_task_status(research_tasks, task_id)
    /\ UNCHANGED <<research_tasks, background_tasks, cfg, hist>>
    /\ ApiFrame

RunResearchTask ==
    /\ pc = "serving"
    /\ \E task_id \in TaskIds :
         LET r == run_research_task(research_tasks, background_tasks, task_id) IN
         /\ (task_id \in DOMAIN research_tasks) => (hist.scheduled < MaxJobs)
         /\ background_tasks' = r.background_tasks
         /\ response' = r.response
         /\ hist' = [hist EXCEPT !.scheduled =
                        @ + Len(r.background_tasks) - Len(background_tasks)]
    /\ UNCHANGED <<research_tasks, cfg>>
    /\ ApiFrame

BackgroundRun ==
    /\ pc = "serving"
    /\ \E k \in 1..Len(background_tasks), resp \in ApiDecisions, ok \in BOOLEAN :
         LET task_id == background_tasks[k]
             r == run_research_workflow(research_tasks, task_id, cfg, resp, ok)
         IN /\ research_tasks' = r.research_tasks
            /\ background_tasks' = SubSeq(background_tasks, 1, k - 1)
                                   \o SubSeq(background_tasks, k + 1, Len(background_tasks))
            /\ hist' = [hist EXCEPT !.last_run =
                          [ task_id |-> task_id, kind |-> resp.kind, ok |-> ok,
                            flag |-> cfg.ENABLE_WEB_SEARCH,
                            found |-> task_id \in DOMAIN research_tasks,
                            raised |-> r.raised, steps |-> r.steps ]]
    /\ UNCHANGED <<cfg, response>>
    /\ ApiFrame

GetEssay ==
    /\ pc = "serving"
    /\ \E task_id \in TaskIds : response' = get_essay(research_tasks, task_id)
    /\ UNCHANGED <<research_tasks, background_tasks, cfg, hist>>
    /\ ApiFrame

DeleteTask ==
    /\ pc = "serving"
    /\ \E task_id \in TaskIds :
         LET r == delete_task(research_tasks, task_id) IN
         /\ research_tasks' = r.research_tasks
         /\ response' = r.response
         /\ hist' = [hist EXCEPT !.deleted =
                        IF task_id \in DOMAIN research_tasks THEN @ \cup {task_id} ELSE @]
    /\ UNCHANGED <<background_tasks, cfg>>
    /\ ApiFrame

NextApi ==
    \/ StartResearch
    \/ GetTaskStatus
    \/ RunResearchTask
    \/ BackgroundRun
    \/ GetEssay
    \/ DeleteTask

SpecApi == InitApi /\ [][NextApi]_vars

(* The step is a background task running / a request being answered *)
BackgroundRan == Len(background_tasks') < Len(background_tasks)

(* C34: an id delete_task removed is never in research_tasks again, and    *)
(* every later request for it (status, essay, run, delete) is answered     *)
(* 404; a background run_research_workflow for it that was added before    *)
(* the delete and runs after it stores nothing.                            *)
C34_DeletedStaysAbsent ==
    [][ /\ \A task_id \in hist.deleted :
              /\ task_id \notin DOMAIN research_tasks'
              /\ (~BackgroundRan /\ response'.task_id = task_id) =>
                    (response'.status_code = 404)
        /\ (BackgroundRan /\ hist'.last_run.task_id \in hist.deleted) =>
              /\ research_tasks' = research_tasks
              /\ ~hist'.last_run.found
      ]_vars

C34_Witness ==
    /\ 1 \in hist.deleted
    /\ hist.last_run.task_id = 1 /\ ~hist.last_run.found
    /\ 1 \notin DOMAIN research_tasks
    /\ 2 \in DOMAIN research_tasks
    /\ response = Answer("get_task_status", 1, 404, "Task not found")

(* C35: config.ENABLE_WEB_SEARCH changes only in start_research, only from *)
(* true to false, and only for a request with enable_web_search false;     *)
(* from such a request on it is false, and every workflow run after it,    *)
(* whatever request created its task, decides and dispatches with the web  *)
(* search disabled: the fallback never names web_searching, and a          *)
(* dispatch of web_searching calls no web search (no search result, no     *)
(* error of the web agent, current_step "web_search_completed").           *)
C35_FlagOnlyDrops ==
    [][ /\ (cfg' # cfg) =>
              /\ cfg.ENABLE_WEB_SEARCH /\ ~cfg'.ENABLE_WEB_SEARCH
              /\ response'.endpoint = "start_research"
              /\ hist'.created = hist.created + 1
              /\ hist'.created \notin hist'.created_enabled
        /\ hist.disabled => (~cfg.ENABLE_WEB_SEARCH /\ ~cfg'.ENABLE_WEB_SEARCH)
        /\ (BackgroundRan /\ hist.disabled /\ hist'.last_run.found) =>
              LET run == hist'.last_run
                  st == research_tasks'[run.task_id]
                  dispatched == { run.steps[i] : i \in DOMAIN run.steps }
              IN /\ ~run.flag
                 /\ (run.kind = "raise") => ("web_searching" \notin dispatched)
                 /\ (run.kind = "raise" /\ run.ok) => ("analyzing_data" \in dispatched)
                 /\ (run.kind = "object") =>
                       /\ dispatched = {"web_searching"}
                       /\ st.current_step = "web_search_completed"
                       /\ st.errors = << >>
                 /\ st.search_results = << >>
      ]_vars

C35_Witness ==
    /\ hist.disabled /\ ~cfg.ENABLE_WEB_SEARCH
    /\ hist.created_enabled = {2}
    /\ hist.last_run.task_id = 2 /\ hist.last_run.found
    /\ hist.last_run.kind = "object" /\ ~hist.last_run.ok
    /\ Len(hist.last_run.steps) = max_iterations
    /\ research_tasks[2].current_step = "web_search_completed"
    /\ research_tasks[2].errors = << >>

====
